---------------------------- MODULE Spec2Model ----------------------------
(***************************************************************************)
(* Model of "Programs/Sigil ID/Advanced Sigil Analyzer.py": the PDF scan   *)
(* worker of PDFScannerApp, its two page-extraction strategies (raster/OCR *)
(* and vector/pdfplumber), the heading-driven entry segmenter and the      *)
(* bibliography extractor.                                                 *)
(*                                                                         *)
(* Text is modelled as sequences of one-character strings, so that the     *)
(* regular expressions, str.strip and " ".join are computed character by   *)
(* character as Python computes them.                                      *)
(***************************************************************************)
EXTENDS Integers, Sequences, FiniteSets, TLC

(***************************************************************************)
(* Characters                                                              *)
(***************************************************************************)

\* The characters of the model, in code-point order (Python compares str by
\* code point).  The typographic apostrophe of HEADING_CLASS_RE is outside
\* this alphabet; the ASCII apostrophe, which the pattern does not list, is
\* inside.
CodePoints ==
  <<" ", "!", "\"", "'", "(", ")", "*", "+", ",", "-", ".", "/",
    "0", "1", "2", "3", "4", "5", "6", "7", "8", "9", ":", ";", "?",
    "A", "B", "C", "D", "E", "F", "G", "H", "I", "J", "K", "L", "M",
    "N", "O", "P", "Q", "R", "S", "T", "U", "V", "W", "X", "Y", "Z",
    "[", "]", "_",
    "a", "b", "c", "d", "e", "f", "g", "h", "i", "j", "k", "l", "m",
    "n", "o", "p", "q", "r", "s", "t", "u", "v", "w", "x", "y", "z">>

Ord(c) == CHOOSE i \in 1..Len(CodePoints) : CodePoints[i] = c

Upper == {"A", "B", "C", "D", "E", "F", "G", "H", "I", "J", "K", "L", "M",
          "N", "O", "P", "Q", "R", "S", "T", "U", "V", "W", "X", "Y", "Z"}

Lower == {"a", "b", "c", "d", "e", "f", "g", "h", "i", "j", "k", "l", "m",
          "n", "o", "p", "q", "r", "s", "t", "u", "v", "w", "x", "y", "z"}

Digit == {"0", "1", "2", "3", "4", "5", "6", "7", "8", "9"}

\* \s and str.strip/str.isspace: the only whitespace of the alphabet.
Whitespace == {" "}

(***************************************************************************)
(* str operations                                                          *)
(***************************************************************************)

\* str.strip()
Strip(s) ==
  LET keep == {i \in 1..Len(s) : s[i] \notin Whitespace}
  IN  IF keep = {} THEN <<>>
      ELSE LET lo == CHOOSE i \in keep : \A j \in keep : i <= j
               hi == CHOOSE i \in keep : \A j \in keep : j <= i
           IN  SubSeq(s, lo, hi)

RECURSIVE Join(_)
\* " ".join(parts)
Join(parts) ==
  IF parts = <<>> THEN <<>>
  ELSE IF Len(parts) = 1 THEN parts[1]
  ELSE parts[1] \o <<" ">> \o Join(Tail(parts))

\* a < b on str: code-point lexicographic order
StrLess(a, b) ==
  \E i \in 1..(Len(a) + 1) :
     /\ \A j \in 1..(i - 1) : j <= Len(b) /\ a[j] = b[j]
     /\ \/ i = Len(a) + 1 /\ i <= Len(b)
        \/ i <= Len(a) /\ i <= Len(b) /\ Ord(a[i]) < Ord(b[i])

RECURSIVE PySorted(_)
\* sorted(list(a_set)) for a set of str
PySorted(S) ==
  IF S = {} THEN <<>>
  ELSE LET m == CHOOSE x \in S : \A y \in S \ {x} : StrLess(x, y)
       IN  <<m>> \o PySorted(S \ {m})

(***************************************************************************)
(* HEADING_CLASS_RE = ^([A-Z0-9][A-Z0-9\s\-,]+?)\s+([A-Z][a-z]{1,3}\.)     *)
(* (and the typographic apostrophe in the second class)                    *)
(***************************************************************************)

HeadFirst == Upper \cup Digit
HeadBody  == Upper \cup Digit \cup Whitespace \cup {"-", ","}

\* The ways the part of the pattern after group 1 can match when group 1 is
\* s[1..k]: <<m, t>> with s[k+1..m] the \s+ run, s[m+1] the capital and
\* s[m+2..m+1+t] the {1,3} lower-case letters, s[m+2+t] the period.
HeadingTails(s, k) ==
  {mt \in ((k + 1)..Len(s)) \X (1..3) :
     LET m == mt[1]
         t == mt[2]
     IN  /\ \A i \in (k + 1)..m : s[i] \in Whitespace
         /\ m + 2 + t <= Len(s)
         /\ s[m + 1] \in Upper
         /\ \A i \in (m + 2)..(m + 1 + t) : s[i] \in Lower
         /\ s[m + 2 + t] = "."}

\* HEADING_CLASS_RE.match(s): group 1 is lazy (the shortest k wins), \s+ and
\* {1,3} are greedy (the longest m, then the longest t).
HeadingMatch(s) ==
  LET n  == Len(s)
      ks == IF n >= 1 /\ s[1] \in HeadFirst
            THEN {k \in 2..n : /\ \A i \in 2..k : s[i] \in HeadBody
                               /\ HeadingTails(s, k) # {}}
            ELSE {}
  IN  IF ks = {} THEN [matched |-> FALSE]
      ELSE LET k  == CHOOSE x \in ks : \A y \in ks : x <= y
               ts == HeadingTails(s, k)
               m  == CHOOSE x \in {mt[1] : mt \in ts} :
                        \A y \in {mt[1] : mt \in ts} : y <= x
               t  == CHOOSE x \in {mt[2] : mt \in {z \in ts : z[1] = m}} :
                        \A y \in {mt[2] : mt \in {z \in ts : z[1] = m}} : y <= x
           IN  [matched |-> TRUE,
                group1  |-> SubSeq(s, 1, k),
                group2  |-> SubSeq(s, m + 1, m + 2 + t),
                end     |-> m + 2 + t]

(***************************************************************************)
(* BIBLIO_RE = ([A-Z][A-Za-z\s]+?\s\d{4}|[A-Z][A-Za-z\s]+?\s\d{1,2}C)      *)
(***************************************************************************)

BiblioBody == Upper \cup Lower \cup Whitespace

\* First alternative at p: the lazy body is s[p+1..q]; the match ends at q+5.
BiblioAlt1(s, p) ==
  {q \in (p + 1)..Len(s) :
     /\ \A i \in (p + 1)..q : s[i] \in BiblioBody
     /\ q + 5 <= Len(s)
     /\ s[q + 1] \in Whitespace
     /\ \A i \in (q + 2)..(q + 5) : s[i] \in Digit}

\* Second alternative at p: <<q, d>> with d the number of digits before "C".
BiblioAlt2(s, p) ==
  {qd \in ((p + 1)..Len(s)) \X (1..2) :
     LET q == qd[1]
         d == qd[2]
     IN  /\ \A i \in (p + 1)..q : s[i] \in BiblioBody
         /\ q + 2 + d <= Len(s)
         /\ s[q + 1] \in Whitespace
         /\ \A i \in (q + 2)..(q + 1 + d) : s[i] \in Digit
         /\ s[q + 2 + d] = "C"}

\* The end of the match of BIBLIO_RE that starts at p, 0 when there is none.
\* The first alternative is tried before the second; in each the body is lazy
\* (shortest q) and \d{1,2} greedy (longest d).
BiblioMatchEnd(s, p) ==
  IF p > Len(s) \/ s[p] \notin Upper THEN 0
  ELSE LET a1 == BiblioAlt1(s, p)
           a2 == BiblioAlt2(s, p)
       IN  IF a1 # {}
           THEN (CHOOSE q \in a1 : \A r \in a1 : q <= r) + 5
           ELSE IF a2 # {}
           THEN LET q == CHOOSE x \in {qd[1] : qd \in a2} :
                            \A y \in {qd[1] : qd \in a2} : x <= y
                    d == CHOOSE x \in {qd[2] : qd \in {z \in a2 : z[1] = q}} :
                            \A y \in {qd[2] : qd \in {z \in a2 : z[1] = q}} : y <= x
                IN  q + 2 + d
           ELSE 0

RECURSIVE BiblioFindIter(_, _)
\* [m.group(0) for m in BIBLIO_RE.finditer(s)], scanning from position p:
\* leftmost matches, non-overlapping.
BiblioFindIter(s, p) ==
  IF p > Len(s) THEN <<>>
  ELSE LET e == BiblioMatchEnd(s, p)
       IN  IF e = 0 THEN BiblioFindIter(s, p + 1)
           ELSE <<SubSeq(s, p, e)>> \o BiblioFindIter(s, e + 1)

\* temp_biblio_set after the loop: every match, stripped, in a set.
BiblioSet(description) ==
  LET ms == BiblioFindIter(description, 1)
  IN  {Strip(ms[i]) : i \in 1..Len(ms)}


(***************************************************************************)
(* Entries and the entry segmenter                                         *)
(***************************************************************************)

VARIABLES
  seg_strategy,       \* "ocr": _extract_elements_with_ocr, "direct": _extract_elements_from_plumber_page
  seg_number,         \* fitz_page.number, the 0-based index of the page
  lines_for_parsing,  \* the lines the segmenter loop iterates over
  line_pos,           \* how many of them the loop has consumed
  current_entry,      \* the entry being built, or None
  entries_data,       \* the entries emitted for the page so far
  seg_pc,             \* "lines": in the line loop, "glyphs": in the glyph loop, "done": the function returned
  glyph_data,         \* what the glyph loop iterates over: the rows of ocr_data, or plumber_page.chars
  glyph_pos           \* how many of them the loop has consumed

segVars == <<seg_strategy, seg_number, lines_for_parsing, line_pos,
             current_entry, entries_data, seg_pc, glyph_data, glyph_pos>>

VARIABLES
  all_extracted_data,            \* self.all_extracted_data
  sigil_counter,                 \* self.sigil_counter
  current_pdf_document_fitz,     \* self.current_pdf_document_fitz: None or a handle
  current_pdf_document_plumber,  \* self.current_pdf_document_plumber
  use_ocr_var,                   \* self.use_ocr_var
  scan_start_page_idx,           \* self.scan_start_page_idx (None before the first scan)
  scan_end_page_idx,             \* self.scan_end_page_idx
  status_label,                  \* the text of self.status_label
  log_text,                      \* the messages of self.log_text, with the thread that logged each
  progress_value,                \* self.progress_bar["value"]
  root,                          \* whether self.root is truthy
  tesseract_installed,           \* whether the Tesseract binary can be run
  doc_fault,                     \* which page of the document is malformed, and how
  json_file,                     \* OUTPUT_JSON_PATH: None, or the entries dumped into it
  image_files,                   \* OUTPUT_IMAGE_DIR: file name -> image
  open_handles,                  \* the document handles opened and not closed
  visual_elements,               \* the annotations last handed to the page display (line 445)
  workers                        \* the scan threads started so far, in order

appVars == <<all_extracted_data, sigil_counter, current_pdf_document_fitz,
             current_pdf_document_plumber, use_ocr_var, scan_start_page_idx,
             scan_end_page_idx, status_label, log_text, progress_value, root,
             tesseract_installed, doc_fault, json_file, image_files,
             open_handles, visual_elements, workers>>

VARIABLES
  scanned_data_for_query,        \* self.scanned_data_for_query
  draw_last_x,                   \* self.draw_last_x: <<>> for None, <<x>> for the x of the last motion event
  draw_last_y,                   \* self.draw_last_y
  drawn_image_pil,               \* self.drawn_image_pil: the line segments drawn on the background
  sigil_search_status_label,     \* the text of self.sigil_search_status_label
  sigil_search_results,          \* the children of self.sigil_search_results_content_frame
  query_results_text,            \* the content of self.query_results_text
  messagebox,                    \* the dialogs the last handler showed, in order
  last_handler                   \* the handler of the Query and Sigil Search tabs that ran last

queryVars == <<scanned_data_for_query, draw_last_x, draw_last_y, drawn_image_pil,
               sigil_search_status_label, sigil_search_results, query_results_text,
               messagebox, last_handler>>

vars == <<segVars, appVars, queryVars>>

\* Python's None
None == [none |-> TRUE]

\* The text of a label, with the number formatted into it (0 when none is).
LabelText(text, n) == [text |-> text, n |-> n]

\* The Query and Sigil Search tabs right after PDFScannerApp.__init__:
\* lines 73, 81-82, 183, 204 and 227.
QueryStart ==
  /\ scanned_data_for_query = <<>>
  /\ draw_last_x = <<>>
  /\ draw_last_y = <<>>
  /\ drawn_image_pil = {}
  /\ sigil_search_status_label = LabelText("Draw a symbol and click Search.", 0)
  /\ sigil_search_results = [label |-> "Matching sigils will appear here."]
  /\ query_results_text = [text |-> "Load scanned data to view and query entries."]
  /\ messagebox = <<>>
  /\ last_handler = "none"

\* The dict a heading line creates (lines 485 and 536).
NewEntry(heading, category, page_number) ==
  [heading |-> heading, class |-> category, sigils_metadata |-> <<>>,
   description_parts |-> <<>>, references_raw |-> {},
   page_number |-> page_number]

IsOpenEntry(e) == "description_parts" \in DOMAIN e
IsFinalEntry(e) == "description" \in DOMAIN e /\ ~IsOpenEntry(e)

\* OcrFinalize with the references left in match order, duplicates kept.
OcrFinalizeUnsorted(e) ==
  LET description == Strip(Join(e.description_parts))
      ms == BiblioFindIter(description, 1)
  IN  [heading |-> e.heading, class |-> e.class,
       sigils_metadata |-> e.sigils_metadata,
       description |-> description,
       references_raw |-> [i \in 1..Len(ms) |-> Strip(ms[i])],
       page_number |-> e.page_number]

\* Raster strategy, lines 480-483 and 490-493: description joined and
\* stripped, description_parts deleted, references_raw sorted.
OcrFinalize(e) ==
  LET description == Strip(Join(e.description_parts))
  IN  [heading |-> e.heading, class |-> e.class,
       sigils_metadata |-> e.sigils_metadata,
       description |-> description,
       references_raw |-> PySorted(BiblioSet(description)),
       page_number |-> e.page_number]

\* OcrSegLine with the emission of the open entry at a new heading left out.
OcrSegLineMissingEmit(st, line_text_raw, fitz_number) ==
  LET line_text == Strip(line_text_raw)
      hm == HeadingMatch(line_text)
  IN  IF line_text = <<>> THEN st
      ELSE IF hm.matched
      THEN LET remaining == Strip(SubSeq(line_text, hm.end + 1, Len(line_text)))
               fresh == NewEntry(Strip(hm.group1), Strip(hm.group2), fitz_number + 1)
           IN  [current_entry |->
                  IF remaining # <<>>
                  THEN [fresh EXCEPT !.description_parts = <<remaining>>]
                  ELSE fresh,
                entries_data |-> st.entries_data]
      ELSE IF st.current_entry # None
      THEN [st EXCEPT !.current_entry.description_parts = Append(@, line_text)]
      ELSE st

\* OcrSegLine with a line met while no entry is open kept: it opens an entry
\* without a heading.
OcrSegLineKeepsOrphan(st, line_text_raw, fitz_number) ==
  LET line_text == Strip(line_text_raw)
      hm == HeadingMatch(line_text)
  IN  IF line_text = <<>> THEN st
      ELSE IF hm.matched
      THEN LET emitted == IF st.current_entry # None
                          THEN Append(st.entries_data, OcrFinalize(st.current_entry))
                          ELSE st.entries_data
               remaining == Strip(SubSeq(line_text, hm.end + 1, Len(line_text)))
               fresh == NewEntry(Strip(hm.group1), Strip(hm.group2), fitz_number + 1)
           IN  [current_entry |->
                  IF remaining # <<>>
                  THEN [fresh EXCEPT !.description_parts = <<remaining>>]
                  ELSE fresh,
                entries_data |-> emitted]
      ELSE IF st.current_entry # None
      THEN [st EXCEPT !.current_entry.description_parts = Append(@, line_text)]
      ELSE [st EXCEPT !.current_entry =
              [NewEntry(<<>>, <<>>, fitz_number + 1) EXCEPT !.description_parts = <<line_text>>]]

\* Raster strategy, one iteration of the loop at lines 474-488 on the
\* segmenter state st = [current_entry, entries_data].
OcrSegLine(st, line_text_raw, fitz_number) ==
  LET line_text == Strip(line_text_raw)
      hm == HeadingMatch(line_text)
  IN  IF line_text = <<>> THEN st
      ELSE IF hm.matched
      THEN LET emitted == IF st.current_entry # None
                          THEN Append(st.entries_data, OcrFinalize(st.current_entry))
                          ELSE st.entries_data
               remaining == Strip(SubSeq(line_text, hm.end + 1, Len(line_text)))
               fresh == NewEntry(Strip(hm.group1), Strip(hm.group2), fitz_number + 1)
           IN  [current_entry |->
                  IF remaining # <<>>
                  THEN [fresh EXCEPT !.description_parts = <<remaining>>]
                  ELSE fresh,
                entries_data |-> emitted]
      ELSE IF st.current_entry # None
      THEN [st EXCEPT !.current_entry.description_parts = Append(@, line_text)]
      ELSE st

\* Raster strategy, lines 489-493: the entry still open after the last line.
OcrSegEnd(st) ==
  IF st.current_entry # None
  THEN [current_entry |-> st.current_entry,
        entries_data |-> Append(st.entries_data, OcrFinalize(st.current_entry))]
  ELSE st

\* Vector strategy, lines 531-534 and 557-560.
PlumberFinalize(e) ==
  LET description == Strip(Join(e.description_parts))
  IN  [heading |-> e.heading, class |-> e.class,
       sigils_metadata |-> e.sigils_metadata,
       description |-> description,
       references_raw |-> PySorted(BiblioSet(description)),
       page_number |-> e.page_number]

\* PlumberSegLine with the text after the matched prefix dropped.
PlumberSegLineNoRemaining(st, line_text_raw, page_number) ==
  LET line_text == Strip(line_text_raw)
      hm == HeadingMatch(line_text)
  IN  IF line_text = <<>> THEN st
      ELSE IF hm.matched
      THEN [current_entry |-> NewEntry(Strip(hm.group1), Strip(hm.group2), page_number),
            entries_data |-> IF st.current_entry # None
                             THEN Append(st.entries_data, PlumberFinalize(st.current_entry))
                             ELSE st.entries_data]
      ELSE IF st.current_entry # None
      THEN [st EXCEPT !.current_entry.description_parts = Append(@, line_text)]
      ELSE st

\* Vector strategy, one iteration of the loop at lines 521-540;
\* page_number is plumber_page.page_number (1-based).
PlumberSegLine(st, line_text_raw, page_number) ==
  LET line_text == Strip(line_text_raw)
      hm == HeadingMatch(line_text)
  IN  IF line_text = <<>> THEN st
      ELSE IF hm.matched
      THEN LET emitted == IF st.current_entry # None
                          THEN Append(st.entries_data, PlumberFinalize(st.current_entry))
                          ELSE st.entries_data
               remaining == Strip(SubSeq(line_text, hm.end + 1, Len(line_text)))
               fresh == NewEntry(Strip(hm.group1), Strip(hm.group2), page_number)
           IN  [current_entry |->
                  IF remaining # <<>>
                  THEN [fresh EXCEPT !.description_parts = <<remaining>>]
                  ELSE fresh,
                entries_data |-> emitted]
      ELSE IF st.current_entry # None
      THEN [st EXCEPT !.current_entry.description_parts = Append(@, line_text)]
      ELSE st

\* PlumberSegEnd with the entry left open after the last line dropped.
PlumberSegEndNoEmit(st) == st

\* Vector strategy, lines 556-560.
PlumberSegEnd(st) ==
  IF st.current_entry # None
  THEN [current_entry |-> st.current_entry,
        entries_data |-> Append(st.entries_data, PlumberFinalize(st.current_entry))]
  ELSE st

\* SegStart with the last entry of the first page still open.
SegStartCarrying ==
  [current_entry |-> [NewEntry(<<"Q","1">>, <<"X","y",".">>, 1)
                        EXCEPT !.description_parts = <<<<"y">>>>],
   entries_data |-> <<>>]

\* entries_data, visual_elements, current_entry = [], [], None
SegStart == [current_entry |-> None, entries_data |-> <<>>]

RECURSIVE OcrSegLines(_, _, _, _)
\* The loop at lines 474-488 from line i on.
OcrSegLines(st, lines, i, fitz_number) ==
  IF i > Len(lines) THEN st
  ELSE OcrSegLines(OcrSegLine(st, lines[i], fitz_number), lines, i + 1, fitz_number)

RECURSIVE PlumberSegLines(_, _, _, _)
\* The loop at lines 521-540 from line i on.
PlumberSegLines(st, lines, i, page_number) ==
  IF i > Len(lines) THEN st
  ELSE PlumberSegLines(PlumberSegLine(st, lines[i], page_number), lines, i + 1, page_number)

(***************************************************************************)
(* Numbers of the page coordinate system                                   *)
(***************************************************************************)

RECURSIVE GCD(_, _)
GCD(a, b) == IF b = 0 THEN a ELSE GCD(b, a % b)

Abs(x) == IF x < 0 THEN -x ELSE x

\* The number n/d (d > 0) in lowest terms: what Python's true division n / d
\* yields for the zoom factors of the model, without rounding.
Frac(n, d) ==
  LET g == GCD(Abs(n), d)
  IN  IF n = 0 THEN [num |-> 0, den |-> 1] ELSE [num |-> n \div g, den |-> d \div g]

FracLess(a, b) == a.num * b.den < b.num * a.den

\* self.zoom_x, self.zoom_y
ZoomX == 2
ZoomY == 2

(***************************************************************************)
(* _save_sigil_image                                                       *)
(***************************************************************************)

\* \w of re: letters, digits and the underscore (not in the alphabet).
\* \w: letters, digits and the underscore
WordChars == Upper \cup Lower \cup Digit \cup {"_"}

DigitChars == <<"0", "1", "2", "3", "4", "5", "6", "7", "8", "9">>

RECURSIVE IntToStr(_)
\* str(n) for n >= 0
IntToStr(n) ==
  IF n < 10 THEN <<DigitChars[n + 1]>>
  ELSE IntToStr(n \div 10) \o <<DigitChars[(n % 10) + 1]>>

\* How many characters of the heading the file name keeps (line 404).
HeadingPrefixLen == 30

\* re.sub(r'[^\w\-_\. ]', '_', entry_heading[:30])
CleanHeading(entry_heading) ==
  LET n == IF Len(entry_heading) < HeadingPrefixLen THEN Len(entry_heading)
           ELSE HeadingPrefixLen
  IN  [i \in 1..n |->
         IF entry_heading[i] \in WordChars \cup {"-", ".", " "}
         THEN entry_heading[i] ELSE "_"]

\* f"sigil_{clean_heading}_p{page_num}_id{self.sigil_counter}.png"
SigilFileName(clean_heading, page_num, counter) ==
  <<"s","i","g","i","l","_">> \o clean_heading \o <<"_","p">> \o IntToStr(page_num)
     \o <<"_","i","d">> \o IntToStr(counter) \o <<".","p","n","g">>

\* pix.width == 0 or pix.height == 0 for the pixmap of clip bbox =
\* <<x0, y0, x1, y1>> (page coordinates): the clip has no area.
CropIsEmpty(bbox) == ~FracLess(bbox[1], bbox[3]) \/ ~FracLess(bbox[2], bbox[4])

\* _save_sigil_image on the store st = [sigil_counter, files]: the counter is
\* advanced first; an empty crop returns None and writes nothing; otherwise
\* the crop of fitz_page (a [doc, number] record) is written under the name.
SaveSigilImage(st, fitz_page, bbox, entry_heading, page_num) ==
  LET counter == st.sigil_counter + 1
      img_path == SigilFileName(CleanHeading(entry_heading), page_num, counter)
  IN  IF CropIsEmpty(bbox)
      THEN [sigil_counter |-> counter, files |-> st.files, img_path |-> None]
      ELSE [sigil_counter |-> counter,
            files |-> [f \in DOMAIN st.files \cup {img_path} |->
                         IF f = img_path THEN [page |-> fitz_page, clip |-> bbox]
                         ELSE st.files[f]],
            img_path |-> img_path]

(***************************************************************************)
(* Glyph detection                                                         *)
(***************************************************************************)

\* COMMON_PUNCTUATION without the hyphen and the slash.
CommonPunctuationNoHyphenSlash == {".", ",", ";", ":", "(", ")", "'", "\"", "[", "]", "!", "?"}

\* COMMON_PUNCTUATION
COMMON_PUNCTUATION == {".", ",", ";", ":", "(", ")", "'", "\"", "[", "]", "!", "?", "-", "/"}

\* The characters POTENTIAL_SYMBOL_RE_OCR excludes besides \s and \w.
OcrExcluded == {".", ",", ";", ":", "'", "\"", "(", ")", "[", "]", "?", "!"}

\* POTENTIAL_SYMBOL_RE_OCR without the bound {1,5} on the length.
PotentialSymbolOcrAnyLength(text) ==
  /\ Len(text) >= 1
  /\ \A i \in 1..Len(text) :
        text[i] \notin Whitespace \cup WordChars \cup OcrExcluded

\* POTENTIAL_SYMBOL_RE_OCR.match(text)
PotentialSymbolOcr(text) ==
  /\ Len(text) \in 1..5
  /\ \A i \in 1..Len(text) :
        text[i] \notin Whitespace \cup WordChars \cup OcrExcluded

\* text in heading (substring test on str)
IsSubstring(text, heading) ==
  \E i \in 0..(Len(heading) - Len(text)) :
     \A j \in 1..Len(text) : heading[i + j] = text[j]

\* BIBLIO_RE.search(text)
BiblioSearch(text) == \E p \in 1..Len(text) : BiblioMatchEnd(text, p) # 0

\* Line 511: one record of visual_elements; rect is the token's pixel box
\* <<x, y, w, h>> in the raster strategy, the character's box <<x0, top, x1,
\* bottom>> in the vector strategy.
VisualElement(rect, type, text_snippet) ==
  [rect |-> rect, type |-> type, text_snippet |-> text_snippet]

\* Line 511 on g = [entries_data, sigil_counter, files, visual_elements].
OcrVisual(g, rect, type, text) ==
  [g EXCEPT !.visual_elements = Append(@, VisualElement(rect, type, text))]

\* OcrAttach that records the metadata whatever the save returned.
OcrAttachUnconditional(g, a, saved, text, pdf_box, rect, page_number) ==
  LET active == g.entries_data[a]
      sigil_meta == [image_path |-> saved.img_path,
                     parent_entry_heading |-> active.heading,
                     page_number |-> page_number,
                     source_text |-> text,
                     bounding_box_pdf_coords |-> pdf_box,
                     extraction_method |-> "ocr"]
  IN  [entries_data |->
         [g.entries_data EXCEPT ![a].sigils_metadata = Append(@, sigil_meta)],
       sigil_counter |-> saved.sigil_counter,
       files |-> saved.files,
       visual_elements |->
         Append(g.visual_elements, VisualElement(rect, "saved_sigil", text))]

\* OcrAttach with the metadata given to the first entry of entries_data
\* instead of the active one.
OcrAttachFirstEntry(g, a, saved, text, pdf_box, rect, page_number) ==
  LET active == g.entries_data[1]
      sigil_meta == [image_path |-> saved.img_path,
                     parent_entry_heading |-> active.heading,
                     page_number |-> page_number,
                     source_text |-> text,
                     bounding_box_pdf_coords |-> pdf_box,
                     extraction_method |-> "ocr"]
  IN  [entries_data |->
         IF saved.img_path # None
         THEN [g.entries_data EXCEPT ![1].sigils_metadata = Append(@, sigil_meta)]
         ELSE g.entries_data,
       sigil_counter |-> saved.sigil_counter,
       files |-> saved.files,
       visual_elements |->
         Append(g.visual_elements,
                VisualElement(rect,
                              IF saved.img_path # None THEN "saved_sigil"
                              ELSE "potential_symbol",
                              text))]

\* OcrAttach with the entry's sigils replaced by the new metadata instead of
\* extended by it.
OcrAttachReplacing(g, a, saved, text, pdf_box, rect, page_number) ==
  LET active == g.entries_data[a]
      sigil_meta == [image_path |-> saved.img_path,
                     parent_entry_heading |-> active.heading,
                     page_number |-> page_number,
                     source_text |-> text,
                     bounding_box_pdf_coords |-> pdf_box,
                     extraction_method |-> "ocr"]
  IN  [entries_data |->
         IF saved.img_path # None
         THEN [g.entries_data EXCEPT ![a].sigils_metadata = <<sigil_meta>>]
         ELSE g.entries_data,
       sigil_counter |-> saved.sigil_counter,
       files |-> saved.files,
       visual_elements |->
         Append(g.visual_elements,
                VisualElement(rect,
                              IF saved.img_path # None THEN "saved_sigil"
                              ELSE "potential_symbol",
                              text))]

\* Lines 507-511: the metadata of a saved crop is appended to the active
\* entry and the token is annotated "saved_sigil"; without a saved crop no
\* metadata is made and the annotation stays "potential_symbol".  The
\* counter and the image store are as the save left them.
OcrAttach(g, a, saved, text, pdf_box, rect, page_number) ==
  LET active == g.entries_data[a]
      sigil_meta == [image_path |-> saved.img_path,
                     parent_entry_heading |-> active.heading,
                     page_number |-> page_number,
                     source_text |-> text,
                     bounding_box_pdf_coords |-> pdf_box,
                     extraction_method |-> "ocr"]
  IN  [entries_data |->
         IF saved.img_path # None
         THEN [g.entries_data EXCEPT ![a].sigils_metadata = Append(@, sigil_meta)]
         ELSE g.entries_data,
       sigil_counter |-> saved.sigil_counter,
       files |-> saved.files,
       visual_elements |->
         Append(g.visual_elements,
                VisualElement(rect,
                              IF saved.img_path # None THEN "saved_sigil"
                              ELSE "potential_symbol",
                              text))]

\* Lines 495-511 for a stripped token text, its page-coordinate box and its
\* pixel box.
OcrGlyphToken(g, text, pdf_box, rect, page) ==
  LET page_number == page.number + 1
      is_heading_word ==
        \E i \in 1..Len(g.entries_data) :
           /\ g.entries_data[i].page_number = page_number
           /\ IsSubstring(text, g.entries_data[i].heading)
      onPage == {i \in 1..Len(g.entries_data) : g.entries_data[i].page_number = page_number}
  IN  IF text = <<>> THEN g
      ELSE IF is_heading_word THEN OcrVisual(g, rect, "heading", text)
      ELSE IF BiblioSearch(text) THEN OcrVisual(g, rect, "biblio_ref", text)
      ELSE IF ~PotentialSymbolOcr(text) THEN OcrVisual(g, rect, "text_block", text)
      ELSE IF onPage = {} THEN OcrVisual(g, rect, "potential_symbol", text)
      ELSE LET a == CHOOSE i \in onPage : \A j \in onPage : j <= i
           IN  OcrAttach(g, a,
                         SaveSigilImage([sigil_counter |-> g.sigil_counter, files |-> g.files],
                                        page, pdf_box, g.entries_data[a].heading, page_number),
                         text, pdf_box, rect, page_number)

\* Lines 496-498 without the division by the zoom: the pixel box kept as it is.
OcrGlyphRowPixelBox(g, row, page) ==
  OcrGlyphToken(g, Strip(row.text),
                <<Frac(row.left, 1), Frac(row.top, 1),
                  Frac(row.left + row.width, 1), Frac(row.top + row.height, 1)>>,
                <<row.left, row.top, row.width, row.height>>,
                page)

OcrGlyphRow(g, row, page) ==
  OcrGlyphToken(g, Strip(row.text),
                <<Frac(row.left, ZoomX), Frac(row.top, ZoomY),
                  Frac(row.left + row.width, ZoomX), Frac(row.top + row.height, ZoomY)>>,
                <<row.left, row.top, row.width, row.height>>,
                page)

RECURSIVE OcrGlyphRows(_, _, _, _)
\* The loop at lines 494-511 from row i on.
OcrGlyphRows(g, rows, i, page) ==
  IF i > Len(rows) THEN g
  ELSE OcrGlyphRows(OcrGlyphRow(g, rows[i], page), rows, i + 1, page)

\* The padding of a vector candidate's box (line 546).
Padding == 1

\* The largest height of a padded vector candidate (line 547).
MaxGlyphHeight == 50

\* PlumberAttach with the metadata numbered by the page's index, from 0.
PlumberAttachZeroBasedPage(g, saved, char_text, padded_bbox, char_box, page_number) ==
  LET sigil_meta == [image_path |-> saved.img_path,
                     parent_entry_heading |-> g.current_entry.heading,
                     page_number |-> page_number - 1,
                     source_text |-> char_text,
                     bounding_box_pdf_coords |-> padded_bbox,
                     extraction_method |-> "direct"]
  IN  [current_entry |->
         IF saved.img_path # None
         THEN [g.current_entry EXCEPT !.sigils_metadata = Append(@, sigil_meta)]
         ELSE g.current_entry,
       sigil_counter |-> saved.sigil_counter,
       files |-> saved.files,
       visual_elements |->
         Append(g.visual_elements,
                VisualElement(char_box,
                              IF saved.img_path # None THEN "saved_sigil"
                              ELSE "potential_symbol",
                              char_text))]

\* Lines 549-553: the metadata of a saved crop is appended to the open
\* entry and the character is annotated "saved_sigil"; without a saved crop
\* no metadata is made and the annotation stays "potential_symbol".  The
\* counter and the image store are as the save left them.
PlumberAttach(g, saved, char_text, padded_bbox, char_box, page_number) ==
  LET sigil_meta == [image_path |-> saved.img_path,
                     parent_entry_heading |-> g.current_entry.heading,
                     page_number |-> page_number,
                     source_text |-> char_text,
                     bounding_box_pdf_coords |-> padded_bbox,
                     extraction_method |-> "direct"]
  IN  [current_entry |->
         IF saved.img_path # None
         THEN [g.current_entry EXCEPT !.sigils_metadata = Append(@, sigil_meta)]
         ELSE g.current_entry,
       sigil_counter |-> saved.sigil_counter,
       files |-> saved.files,
       visual_elements |->
         Append(g.visual_elements,
                VisualElement(char_box,
                              IF saved.img_path # None THEN "saved_sigil"
                              ELSE "potential_symbol",
                              char_text))]

\* Line 548: the crop of an accepted candidate is saved.
PlumberSave(g, char_text, padded_bbox, char_box, plumber_page, fitz_page) ==
  PlumberAttach(g,
                SaveSigilImage([sigil_counter |-> g.sigil_counter, files |-> g.files],
                               fitz_page, padded_bbox, g.current_entry.heading,
                               plumber_page.page_number),
                char_text, padded_bbox, char_box, plumber_page.page_number)

\* PlumberGlyphChar with the save of line 548 made before the test of line
\* 547: a rejected candidate has its crop written and the counter advanced.
PlumberGlyphCharSavesBeforeTest(g, char_info, plumber_page, fitz_page) ==
  LET char_text == char_info.text
      x0 == char_info.x0 - Padding
      y0 == char_info.top - Padding
      x1 == char_info.x1 + Padding
      y1 == char_info.bottom + Padding
      candidate == /\ Len(char_text) = 1
                   /\ char_text[1] \notin Upper \cup Lower \cup Digit
                   /\ char_text[1] \notin COMMON_PUNCTUATION
                   /\ char_text[1] \notin Whitespace
      rejected == \/ x0 < 0 \/ y0 < 0
                  \/ x1 > plumber_page.width \/ y1 > plumber_page.height
                  \/ 2 * (x1 - x0) > plumber_page.width
                  \/ y1 - y0 > MaxGlyphHeight
  IN  IF ~candidate \/ g.current_entry = None THEN g
      ELSE IF rejected
      THEN [g EXCEPT !.sigil_counter = @ + 1]
      ELSE PlumberSave(g, char_text, <<Frac(x0, 1), Frac(y0, 1), Frac(x1, 1), Frac(y1, 1)>>,
                       <<char_info.x0, char_info.top, char_info.x1, char_info.bottom>>,
                       plumber_page, fitz_page)

\* PlumberGlyphChar with the test of line 547 made on the box before padding.
PlumberGlyphCharTestsUnpadded(g, char_info, plumber_page, fitz_page) ==
  LET char_text == char_info.text
      x0 == char_info.x0 - Padding
      y0 == char_info.top - Padding
      x1 == char_info.x1 + Padding
      y1 == char_info.bottom + Padding
      candidate == /\ Len(char_text) = 1
                   /\ char_text[1] \notin Upper \cup Lower \cup Digit
                   /\ char_text[1] \notin COMMON_PUNCTUATION
                   /\ char_text[1] \notin Whitespace
      rejected == \/ char_info.x0 < 0 \/ char_info.top < 0
                  \/ char_info.x1 > plumber_page.width
                  \/ char_info.bottom > plumber_page.height
                  \/ 2 * (char_info.x1 - char_info.x0) > plumber_page.width
                  \/ char_info.bottom - char_info.top > MaxGlyphHeight
  IN  IF ~candidate \/ g.current_entry = None \/ rejected THEN g
      ELSE PlumberSave(g, char_text, <<Frac(x0, 1), Frac(y0, 1), Frac(x1, 1), Frac(y1, 1)>>,
                       <<char_info.x0, char_info.top, char_info.x1, char_info.bottom>>,
                       plumber_page, fitz_page)

\* Vector strategy, lines 542-552 for one char, on
\* g = [current_entry, sigil_counter, files, visual_elements]; plumber_page
\* gives width, height
\* and page_number, fitz_page is the page the crop is taken from.
PlumberGlyphChar(g, char_info, plumber_page, fitz_page) ==
  LET char_text == char_info.text
      x0 == char_info.x0 - Padding
      y0 == char_info.top - Padding
      x1 == char_info.x1 + Padding
      y1 == char_info.bottom + Padding
      candidate == /\ Len(char_text) = 1
                   /\ char_text[1] \notin Upper \cup Lower \cup Digit
                   /\ char_text[1] \notin COMMON_PUNCTUATION
                   /\ char_text[1] \notin Whitespace
      rejected == \/ x0 < 0 \/ y0 < 0
                  \/ x1 > plumber_page.width \/ y1 > plumber_page.height
                  \/ 2 * (x1 - x0) > plumber_page.width
                  \/ y1 - y0 > MaxGlyphHeight
  IN  IF ~candidate \/ g.current_entry = None \/ rejected THEN g
      ELSE PlumberSave(g, char_text, <<Frac(x0, 1), Frac(y0, 1), Frac(x1, 1), Frac(y1, 1)>>,
                       <<char_info.x0, char_info.top, char_info.x1, char_info.bottom>>,
                       plumber_page, fitz_page)

RECURSIVE PlumberGlyphChars(_, _, _, _, _)
\* The loop at lines 541-553 from char i on.
PlumberGlyphChars(g, chars, i, plumber_page, fitz_page) ==
  IF i > Len(chars) THEN g
  ELSE PlumberGlyphChars(PlumberGlyphChar(g, chars[i], plumber_page, fitz_page),
                         chars, i + 1, plumber_page, fitz_page)

(***************************************************************************)
(* Line reconstruction and the two page extractions                        *)
(***************************************************************************)

RECURSIVE OcrLinesFromLineNumOnly(_, _, _, _, _, _)
\* OcrLinesFrom with a line closed on a change of line_num only.
OcrLinesFromLineNumOnly(rows, i, lines, current_line_words, last_block_num, last_line_num) ==
  IF i > Len(rows)
  THEN IF current_line_words # <<>> THEN Append(lines, Join(current_line_words)) ELSE lines
  ELSE LET row == rows[i]
           change == row.line_num # last_line_num
           closed == IF change /\ current_line_words # <<>>
                     THEN Append(lines, Join(current_line_words)) ELSE lines
           words  == IF change THEN <<>> ELSE current_line_words
       IN  OcrLinesFromLineNumOnly(rows, i + 1, closed, Append(words, Strip(row.text)),
                                   row.block_num, row.line_num)

RECURSIVE OcrLinesFrom(_, _, _, _, _, _)
\* Raster strategy, lines 466-473: the rows of ocr_data grouped into lines by
\* (block_num, line_num), each line the " ".join of its stripped texts.
OcrLinesFrom(rows, i, lines, current_line_words, last_block_num, last_line_num) ==
  IF i > Len(rows)
  THEN IF current_line_words # <<>> THEN Append(lines, Join(current_line_words)) ELSE lines
  ELSE LET row == rows[i]
           change == row.block_num # last_block_num \/ row.line_num # last_line_num
           closed == IF change /\ current_line_words # <<>>
                     THEN Append(lines, Join(current_line_words)) ELSE lines
           words  == IF change THEN <<>> ELSE current_line_words
       IN  OcrLinesFrom(rows, i + 1, closed, Append(words, Strip(row.text)),
                        row.block_num, row.line_num)

OcrLines(rows) == OcrLinesFrom(rows, 1, <<>>, <<>>, -1, -1)

\* Line 513: what _extract_elements_with_ocr returns after the glyph loop.
OcrResult(g) ==
  [raised |-> FALSE, entries |-> g.entries_data, visual |-> g.visual_elements,
   store |-> [sigil_counter |-> g.sigil_counter, files |-> g.files],
   errors |-> {}]

\* _extract_elements_with_ocr on the store [sigil_counter, files].  The page
\* is rendered before the try block (a page that cannot be rendered raises
\* into the caller); image_to_data runs inside it, so a missing Tesseract
\* binary and an OCR failure are both caught by the function's own
\* "except Exception": it logs and returns what entries_data and
\* visual_elements hold, nothing.
ExtractOcr(page, store, tesseract) ==
  IF page.fault = "render"
  THEN [raised |-> TRUE, entries |-> <<>>, visual |-> <<>>, store |-> store, errors |-> {}]
  ELSE IF ~tesseract \/ page.fault = "ocr"
  THEN [raised |-> FALSE, entries |-> <<>>, visual |-> <<>>, store |-> store,
        errors |-> {[text |-> "OCR error page", arg |-> page.number + 1]}]
  ELSE OcrResult(OcrGlyphRows(
         [entries_data |->
            OcrSegEnd(OcrSegLines(SegStart, OcrLines(page.ocr_rows), 1, page.number)).entries_data,
          sigil_counter |-> store.sigil_counter,
          files |-> store.files,
          visual_elements |-> <<>>],
         page.ocr_rows, 1, [doc |-> page.doc, number |-> page.number]))

\* Lines 561-564: of the annotations with the same rect the first is kept.
RECURSIVE UniqueVisualElements(_, _, _)
UniqueVisualElements(ves, i, unique) ==
  IF i > Len(ves) THEN unique
  ELSE UniqueVisualElements(ves, i + 1,
         IF \E k \in 1..Len(unique) : unique[k].rect = ves[i].rect
         THEN unique ELSE Append(unique, ves[i]))

\* Lines 556-565: the entry left open is finalized after the glyph loop and
\* the annotations are returned without duplicates.
PlumberResult(seg, g) ==
  [raised |-> FALSE,
   visual |-> UniqueVisualElements(g.visual_elements, 1, <<>>),
   entries |-> PlumberSegEnd([current_entry |-> g.current_entry,
                              entries_data |-> seg.entries_data]).entries_data,
   store |-> [sigil_counter |-> g.sigil_counter, files |-> g.files],
   errors |-> {}]

\* Lines 541-553: the glyph loop over page.chars, after the line loop.
PlumberGlyphs(seg, page, store) ==
  PlumberResult(seg,
                PlumberGlyphChars([current_entry |-> seg.current_entry,
                                   sigil_counter |-> store.sigil_counter,
                                   files |-> store.files,
                                   visual_elements |-> <<>>],
                                  page.chars, 1,
                                  [page_number |-> page.number + 1,
                                   width |-> page.width, height |-> page.height],
                                  [doc |-> page.doc, number |-> page.number]))

\* _extract_elements_from_plumber_page: nothing is caught here, an error in
\* the text layer raises into the caller; a page without text returns [].
\* The glyph loop runs after the line loop, on the entry left open by it,
\* and the open entry is finalized after the glyph loop.  The pages have no
\* ruled lines (plumber_page.lines is empty), so lines 527 and 539 annotate
\* nothing; a word of extract_words holds no whitespace, which BIBLIO_RE
\* requires, so line 555 annotates nothing either.
ExtractPlumber(page, store) ==
  IF page.fault = "text"
  THEN [raised |-> TRUE, entries |-> <<>>, visual |-> <<>>, store |-> store, errors |-> {}]
  ELSE IF page.text_lines = <<>>
  THEN [raised |-> FALSE, entries |-> <<>>, visual |-> <<>>, store |-> store, errors |-> {}]
  ELSE PlumberGlyphs(PlumberSegLines(SegStart, page.text_lines, 1, page.number + 1),
                     page, store)

(***************************************************************************)
(* The document on disk                                                    *)
(***************************************************************************)

\* The selectable PDF; "" stands for no (or no existing) file selected.
PdfPath == "a.pdf"

\* Bound: the number of pages of the document.
NumPages == 2

PageWidth == 500
PageHeight == 700

\* What each engine reads on pages 0 and 1: the rows of image_to_data (pixel
\* boxes at the zoom), the lines of extract_text and the chars of the page.
\* The second page starts with a line that is not a heading line.
PageOcrRows0 ==
  <<
    [block_num |-> 1, line_num |-> 1, text |-> <<"A","B">>,
     left |-> 10, top |-> 20, width |-> 16, height |-> 10],
    [block_num |-> 1, line_num |-> 1, text |-> <<"C","d",".">>,
     left |-> 30, top |-> 20, width |-> 24, height |-> 10],
    [block_num |-> 1, line_num |-> 1, text |-> <<"x">>,
     left |-> 58, top |-> 20, width |-> 8, height |-> 10],
    [block_num |-> 1, line_num |-> 1, text |-> <<"*">>,
     left |-> 21, top |-> 21, width |-> 5, height |-> 4],
    [block_num |-> 1, line_num |-> 2, text |-> <<"D","e","e">>,
     left |-> 10, top |-> 40, width |-> 24, height |-> 10],
    [block_num |-> 1, line_num |-> 2, text |-> <<"1","5","3","3">>,
     left |-> 38, top |-> 40, width |-> 32, height |-> 10],
    [block_num |-> 1, line_num |-> 3, text |-> <<"Q","1">>,
     left |-> 10, top |-> 60, width |-> 16, height |-> 10],
    [block_num |-> 1, line_num |-> 3, text |-> <<"X","y",".">>,
     left |-> 30, top |-> 60, width |-> 24, height |-> 10],
    [block_num |-> 1, line_num |-> 3, text |-> <<"y">>,
     left |-> 58, top |-> 60, width |-> 8, height |-> 10] >>

PageTextLines0 ==
  <<
    <<"A","B"," ","C","d","."," ","x"," ","*">>,
    <<"D","e","e"," ","1","5","3","3">>,
    <<"Q","1"," ","X","y","."," ","y">> >>

PageChars0 ==
  <<
    [text |-> <<"A">>, x0 |-> 5, top |-> 10, x1 |-> 9, bottom |-> 15],
    [text |-> <<"*">>, x0 |-> 10, top |-> 10, x1 |-> 12, bottom |-> 12],
    [text |-> <<"-">>, x0 |-> 30, top |-> 30, x1 |-> 33, bottom |-> 31] >>

PageOcrRows1 ==
  <<
    [block_num |-> 1, line_num |-> 1, text |-> <<"w">>,
     left |-> 10, top |-> 4, width |-> 8, height |-> 10],
    [block_num |-> 1, line_num |-> 2, text |-> <<"E","-","F">>,
     left |-> 10, top |-> 20, width |-> 16, height |-> 10],
    [block_num |-> 1, line_num |-> 2, text |-> <<"G","h",".">>,
     left |-> 30, top |-> 20, width |-> 24, height |-> 10],
    [block_num |-> 1, line_num |-> 2, text |-> <<"z">>,
     left |-> 58, top |-> 20, width |-> 8, height |-> 10],
    [block_num |-> 1, line_num |-> 2, text |-> <<"/">>,
     left |-> 40, top |-> 20, width |-> 0, height |-> 10] >>

PageTextLines1 ==
  <<
    <<"w">>,
    <<"E","-","F"," ","G","h","."," ","z"," ","/">> >>

PageChars1 ==
  <<
    [text |-> <<"+">>, x0 |-> 40, top |-> 10, x1 |-> 44, bottom |-> 14],
    [text |-> <<"*">>, x0 |-> 100, top |-> 100, x1 |-> 110, bottom |-> 160],
    [text |-> <<"/">>, x0 |-> 50, top |-> 10, x1 |-> 52, bottom |-> 14] >>

\* Pages past the second repeat the second one.
DocPage(path, idx, fault) ==
  [doc |-> path, number |-> idx, width |-> PageWidth, height |-> PageHeight,
   ocr_rows |-> IF idx = 0 THEN PageOcrRows0 ELSE PageOcrRows1,
   text_lines |-> IF idx = 0 THEN PageTextLines0 ELSE PageTextLines1,
   chars |-> IF idx = 0 THEN PageChars0 ELSE PageChars1,
   fault |-> IF fault.idx = idx THEN fault.kind ELSE "none"]

(***************************************************************************)
(* The segmenter run line by line on one page (specification SegSpec)      *)
(***************************************************************************)

\* Bound: the longest page, in lines.
MaxLines == 3

\* Bound: the page indices a page is drawn from are 0..MaxPageIndex.
MaxPageIndex == 1

\* The lines pages are built from: heading lines with and without trailing
\* text, lines with citations, a blank line, an upper-case line without tag.
LineHeadText == <<"A","B"," ","C","d","."," ","x">>

LineHeadBare == <<" ","A"," "," ","B","c","."," ">>

LineHeadRef == <<"Q","1"," ","X","y","."," ","D","e","e"," ","1","5","3","3">>

LineRefYear == <<" ","D","e","e"," ","1","5","3","3">>

LineRefCentury == <<"A","b","e"," ","1","2","C"," ">>

LineBlank == <<" "," ">>

LineUpperOnly == <<"N","O"," ","M","A","T","C","H">>

ShortLines == {LineHeadText, LineHeadBare, LineHeadRef, LineRefYear, LineRefCentury, LineBlank, LineUpperOnly}

\* The pages of the spec's two scenarios.
ScenarioFoo ==
  <<"F","O","O"," ","A","b","c","."," ","f","i","r","s","t"," ","l","i","n","e">>

ScenarioSecond ==
  <<"s","e","c","o","n","d"," ","l","i","n","e">>

ScenarioBar ==
  <<"B","A","R"," ","D","e","f","."," ","t","h","i","r","d"," ","l","i","n","e">>

ScenarioAbracadabra ==
  <<"A","B","R","A","C","A","D","A","B","R","A"," ","S","y","m","."," ","A"," ","m","y","s","t","i","c","a","l"," ","w","o","r","d"," ","o","f"," ","p","o","w","e","r","."," ","A","g","r","i","p","p","a"," ","1","5","3","3",".">>

ScenarioPages == {<<ScenarioFoo, ScenarioSecond, ScenarioBar>>, <<ScenarioAbracadabra>>}

RECURSIVE SeqsUpTo(_, _)
\* The sequences over S of length at most n.
SeqsUpTo(S, n) ==
  IF n = 0 THEN {<<>>}
  ELSE LET shorter == SeqsUpTo(S, n - 1)
       IN  shorter \cup {Append(s, x) : s \in {r \in shorter : Len(r) = n - 1}, x \in S}

SegPages == SeqsUpTo(ShortLines, MaxLines) \cup ScenarioPages

SegInit ==
  /\ seg_strategy \in {"ocr", "direct"}
  /\ seg_number \in 0..MaxPageIndex
  /\ lines_for_parsing \in SegPages
  /\ line_pos = 0
  /\ current_entry = None
  /\ entries_data = <<>>
  /\ seg_pc = "lines"
  /\ glyph_data = <<>>
  /\ glyph_pos = 0

SegState == [current_entry |-> current_entry, entries_data |-> entries_data]

Seg_OcrLine ==
  /\ seg_pc = "lines" /\ seg_strategy = "ocr"
  /\ line_pos < Len(lines_for_parsing)
  /\ LET st == OcrSegLine(SegState, lines_for_parsing[line_pos + 1], seg_number)
     IN  /\ current_entry' = st.current_entry
         /\ entries_data' = st.entries_data
  /\ line_pos' = line_pos + 1
  /\ UNCHANGED <<seg_strategy, seg_number, lines_for_parsing, seg_pc, glyph_data, glyph_pos,
               appVars, queryVars>>

Seg_OcrEnd ==
  /\ seg_pc = "lines" /\ seg_strategy = "ocr"
  /\ line_pos = Len(lines_for_parsing)
  /\ LET st == OcrSegEnd(SegState)
     IN  /\ current_entry' = st.current_entry
         /\ entries_data' = st.entries_data
  /\ seg_pc' = "done"
  /\ UNCHANGED <<seg_strategy, seg_number, lines_for_parsing, line_pos, glyph_data, glyph_pos,
               appVars, queryVars>>

Seg_PlumberLine ==
  /\ seg_pc = "lines" /\ seg_strategy = "direct"
  /\ line_pos < Len(lines_for_parsing)
  /\ LET st == PlumberSegLine(SegState, lines_for_parsing[line_pos + 1], seg_number + 1)
     IN  /\ current_entry' = st.current_entry
         /\ entries_data' = st.entries_data
  /\ line_pos' = line_pos + 1
  /\ UNCHANGED <<seg_strategy, seg_number, lines_for_parsing, seg_pc, glyph_data, glyph_pos,
               appVars, queryVars>>

Seg_PlumberEnd ==
  /\ seg_pc = "lines" /\ seg_strategy = "direct"
  /\ line_pos = Len(lines_for_parsing)
  /\ LET st == PlumberSegEnd(SegState)
     IN  /\ current_entry' = st.current_entry
         /\ entries_data' = st.entries_data
  /\ seg_pc' = "done"
  /\ UNCHANGED <<seg_strategy, seg_number, lines_for_parsing, line_pos, glyph_data, glyph_pos,
               appVars, queryVars>>

SegNext == Seg_OcrLine \/ Seg_OcrEnd \/ Seg_PlumberLine \/ Seg_PlumberEnd

(***************************************************************************)
(* PDFScannerApp: the scan worker and the user's actions (Spec)            *)
(***************************************************************************)

\* Bound: how many times the user presses "Scan Selected PDF".
MaxScans == 2

NoFault == [idx |-> -1, kind |-> "none"]

\* A page the renderer cannot draw ("render"), a page Tesseract fails on
\* ("ocr"), a page whose text layer makes pdfplumber raise ("text").
Faults == {NoFault} \cup [idx : 0..(NumPages - 1), kind : {"render", "ocr", "text"}]

\* What the user may have typed into the two page entries.
StartTexts == {<<"x">>} \cup {IntToStr(n) : n \in 1..(NumPages + 1)}

EndTexts == {<<"x">>, IntToStr(1), IntToStr(NumPages + 1)}

\* int(text): the value of a string of digits; anything else raises ValueError.
RECURSIVE DigitsValue(_)
DigitsValue(s) ==
  IF s = <<>> THEN 0
  ELSE 10 * DigitsValue(SubSeq(s, 1, Len(s) - 1)) + (Ord(s[Len(s)]) - Ord("0"))

PyInt(text) ==
  LET s == Strip(text)
  IN  IF s # <<>> /\ \A i \in 1..Len(s) : s[i] \in Digit
      THEN [ok |-> TRUE, value |-> DigitsValue(s)]
      ELSE [ok |-> FALSE]

Min(a, b) == IF a < b THEN a ELSE b

Handle(w, kind, path) == [owner |-> w, kind |-> kind, path |-> path]

\* self.log_message(text, level) called by thread th (0: the UI thread).
Logged(th, level, text, arg) == [thread |-> th, level |-> level, text |-> text, arg |-> arg]

\* The state right after PDFScannerApp.__init__ (lines 65-99).
AppInit ==
  /\ all_extracted_data = <<>>
  /\ sigil_counter = 0
  /\ current_pdf_document_fitz = None
  /\ current_pdf_document_plumber = None
  /\ use_ocr_var = FALSE
  /\ scan_start_page_idx = None
  /\ scan_end_page_idx = None
  /\ status_label = "Status: Idle"
  /\ log_text = {}
  /\ progress_value = 0
  /\ root = TRUE
  /\ json_file = None
  /\ image_files = <<>>
  /\ open_handles = {}
  /\ visual_elements = <<>>
  /\ workers = <<>>
  /\ QueryStart

\* The segmenter variables while no page is being stepped through.
SegIdle ==
  /\ seg_strategy = "direct"
  /\ seg_number = 0
  /\ lines_for_parsing = <<>>
  /\ line_pos = 0
  /\ current_entry = None
  /\ entries_data = <<>>
  /\ seg_pc = "done"
  /\ glyph_data = <<>>
  /\ glyph_pos = 0

\* The machine the program runs on: Tesseract present and at most one
\* malformed page, or Tesseract missing and a well-formed document.
Environments ==
  [tesseract : {TRUE}, fault : Faults] \cup [tesseract : {FALSE}, fault : {NoFault}]

Init ==
  /\ AppInit
  /\ \E env \in Environments :
        /\ tesseract_installed = env.tesseract
        /\ doc_fault = env.fault
  /\ SegIdle

\* The user ticks or unticks "Use OCR" (line 147), between scans.
ToggleOcr ==
  /\ \A w \in 1..Len(workers) : workers[w].pc = "done"
  /\ use_ocr_var' = ~use_ocr_var
  /\ UNCHANGED <<segVars, queryVars, visual_elements, all_extracted_data, sigil_counter, current_pdf_document_fitz,
                 current_pdf_document_plumber, scan_start_page_idx, scan_end_page_idx,
                 status_label, log_text, progress_value, root, tesseract_installed,
                 doc_fault, json_file, image_files, open_handles, workers>>

\* StartScan without the reset of the dataset and the counter at line 422.
StartScanNoReset(pdf_to_scan, start_text, end_text) ==
  LET s == PyInt(start_text)
      e == PyInt(end_text)
  IN  IF pdf_to_scan = ""
      THEN /\ log_text' = log_text \cup {Logged(0, "ERROR", "No valid PDF selected.", 0)}
           /\ UNCHANGED <<all_extracted_data, sigil_counter, scan_start_page_idx,
                          scan_end_page_idx, status_label, workers>>
      ELSE IF ~s.ok \/ ~e.ok
      THEN /\ log_text' = log_text \cup {Logged(0, "ERROR", "Invalid page numbers.", 0)}
           /\ scan_start_page_idx' = IF s.ok THEN s.value - 1 ELSE scan_start_page_idx
           /\ UNCHANGED <<all_extracted_data, sigil_counter, scan_end_page_idx,
                          status_label, workers>>
      ELSE /\ scan_start_page_idx' = s.value - 1
           /\ scan_end_page_idx' = e.value - 1
           /\ log_text' = log_text \cup {Logged(0, "INFO", "Starting scan", 0)}
           /\ status_label' = "Status: Initializing..."
           /\ UNCHANGED <<all_extracted_data, sigil_counter>>
           /\ workers' = Append(workers,
                                [pc |-> "open", pdf_path |-> pdf_to_scan,
                                 page_idx |-> 0, last_idx |-> -1,
                                 processed |-> <<>>,
                                 save_ids |-> <<>>, saved_paths |-> <<>>,
                                 outcome |-> "running"])

\* start_scan_thread with the selected path and the two entry texts.  The
\* two int() calls run in turn: when only the second fails the first field
\* is already assigned.
StartScan(pdf_to_scan, start_text, end_text) ==
  LET s == PyInt(start_text)
      e == PyInt(end_text)
  IN  IF pdf_to_scan = ""
      THEN /\ log_text' = log_text \cup {Logged(0, "ERROR", "No valid PDF selected.", 0)}
           /\ UNCHANGED <<all_extracted_data, sigil_counter, scan_start_page_idx,
                          scan_end_page_idx, status_label, workers>>
      ELSE IF ~s.ok \/ ~e.ok
      THEN /\ log_text' = log_text \cup {Logged(0, "ERROR", "Invalid page numbers.", 0)}
           /\ scan_start_page_idx' = IF s.ok THEN s.value - 1 ELSE scan_start_page_idx
           /\ UNCHANGED <<all_extracted_data, sigil_counter, scan_end_page_idx,
                          status_label, workers>>
      ELSE /\ scan_start_page_idx' = s.value - 1
           /\ scan_end_page_idx' = e.value - 1
           /\ log_text' = log_text \cup {Logged(0, "INFO", "Starting scan", 0)}
           /\ status_label' = "Status: Initializing..."
           /\ all_extracted_data' = <<>>
           /\ sigil_counter' = 0
           /\ workers' = Append(workers,
                                [pc |-> "open", pdf_path |-> pdf_to_scan,
                                 page_idx |-> 0, last_idx |-> -1,
                                 processed |-> <<>>,
                                 save_ids |-> <<>>, saved_paths |-> <<>>,
                                 outcome |-> "running"])

\* The presses of "Scan Selected PDF" so far: the threads started and the
\* requests the UI thread turned down.
Presses ==
  Len(workers)
    + Cardinality({l \in log_text : l.text \in {"No valid PDF selected.",
                                                "Invalid page numbers."}})

StartScanThread ==
  /\ Presses < MaxScans
  /\ \E pdf_to_scan \in {PdfPath, ""}, start_text \in StartTexts, end_text \in EndTexts :
        StartScan(pdf_to_scan, start_text, end_text)
  /\ UNCHANGED <<segVars, queryVars, visual_elements, current_pdf_document_fitz, current_pdf_document_plumber,
                 use_ocr_var, progress_value, root, tesseract_installed, doc_fault,
                 json_file, image_files, open_handles>>

\* scan_pdf_worker, lines 427-428: the documents are opened into the fields.
W_Open(w) ==
  /\ workers[w].pc = "open"
  /\ LET fitz == Handle(w, "fitz", workers[w].pdf_path)
         plumber == Handle(w, "plumber", workers[w].pdf_path)
         mine == IF use_ocr_var THEN {fitz} ELSE {fitz, plumber}
     IN  /\ current_pdf_document_fitz' = fitz
         /\ current_pdf_document_plumber' =
              IF use_ocr_var THEN current_pdf_document_plumber ELSE plumber
         /\ open_handles' = open_handles \cup mine
         /\ workers' = [workers EXCEPT ![w].pc = "validate"]
  /\ UNCHANGED <<segVars, queryVars, visual_elements, all_extracted_data, sigil_counter, use_ocr_var,
                 scan_start_page_idx, scan_end_page_idx, status_label, log_text,
                 progress_value, root, tesseract_installed, doc_fault, json_file,
                 image_files>>

\* The handler of "except Exception" (line 452), entered by thread w.
ScanError(w) ==
  /\ log_text' = log_text \cup {Logged(w, "ERROR", "Scan error", 0)}
  /\ status_label' = "Status: Error"

\* W_Validate without the test of the start page at line 430.
W_ValidateNoStartCheck(w) ==
  /\ workers[w].pc = "validate"
  /\ current_pdf_document_fitz # None
  /\ LET clamped == Min(scan_end_page_idx, NumPages - 1)
     IN  IF clamped < scan_start_page_idx
         THEN /\ scan_end_page_idx' = clamped
              /\ log_text' = log_text \cup
                   {Logged(w, "ERROR", "End page before start.", 0)}
              /\ status_label' = "Status: Error"
              /\ workers' = [workers EXCEPT ![w].pc = "finally",
                                            ![w].outcome = "rejected_end"]
              /\ UNCHANGED progress_value
         ELSE /\ scan_end_page_idx' = clamped
              /\ progress_value' = 0
              /\ workers' = [workers EXCEPT ![w].pc = "loop",
                                            ![w].page_idx = scan_start_page_idx,
                                            ![w].last_idx = clamped]
              /\ UNCHANGED <<log_text, status_label>>
  /\ UNCHANGED <<segVars, queryVars, visual_elements, all_extracted_data, sigil_counter, current_pdf_document_fitz,
                 current_pdf_document_plumber, use_ocr_var, scan_start_page_idx, root,
                 tesseract_installed, doc_fault, json_file, image_files, open_handles>>

\* scan_pdf_worker, lines 429-435: the page range is checked against the
\* document behind the fitz field, the end page clamped to the last page.
W_Validate(w) ==
  /\ workers[w].pc = "validate"
  /\ IF current_pdf_document_fitz = None
     THEN \* len(None) raises TypeError
          /\ ScanError(w)
          /\ workers' = [workers EXCEPT ![w].pc = "finally", ![w].outcome = "error"]
          /\ UNCHANGED <<scan_end_page_idx, progress_value>>
     ELSE LET total_pages_in_doc == NumPages
              clamped == Min(scan_end_page_idx, total_pages_in_doc - 1)
          IN  IF ~(0 <= scan_start_page_idx /\ scan_start_page_idx < total_pages_in_doc)
              THEN /\ log_text' = log_text \cup
                        {Logged(w, "ERROR", "Start page out of bounds.", 0)}
                   /\ status_label' = "Status: Error"
                   /\ workers' = [workers EXCEPT ![w].pc = "finally",
                                                 ![w].outcome = "rejected_start"]
                   /\ UNCHANGED <<scan_end_page_idx, progress_value>>
              ELSE IF clamped < scan_start_page_idx
              THEN /\ scan_end_page_idx' = clamped
                   /\ log_text' = log_text \cup
                        {Logged(w, "ERROR", "End page before start.", 0)}
                   /\ status_label' = "Status: Error"
                   /\ workers' = [workers EXCEPT ![w].pc = "finally",
                                                 ![w].outcome = "rejected_end"]
                   /\ UNCHANGED progress_value
              ELSE /\ scan_end_page_idx' = clamped
                   /\ progress_value' = 0
                   /\ workers' = [workers EXCEPT ![w].pc = "loop",
                                                 ![w].page_idx = scan_start_page_idx,
                                                 ![w].last_idx = clamped]
                   /\ UNCHANGED <<log_text, status_label>>
  /\ UNCHANGED <<segVars, queryVars, visual_elements, all_extracted_data, sigil_counter, current_pdf_document_fitz,
                 current_pdf_document_plumber, use_ocr_var, scan_start_page_idx, root,
                 tesseract_installed, doc_fault, json_file, image_files, open_handles>>

\* Lines 440/444 and 446: what the loop does with an extraction's outcome.
PageResult(r) ==
  IF r.raised THEN [kind |-> "raise"]
  ELSE [kind |-> "ok", entries |-> r.entries, visual |-> r.visual, store |-> r.store,
        errors |-> r.errors]

\* PageStep without the abort check of line 436.
PageStepNoAbortCheck(w) ==
  IF current_pdf_document_fitz = None THEN [kind |-> "raise"]
  ELSE IF use_ocr_var
  THEN PageResult(ExtractOcr(DocPage(current_pdf_document_fitz.path, workers[w].page_idx,
                                     doc_fault),
                             [sigil_counter |-> sigil_counter, files |-> image_files],
                             tesseract_installed))
  ELSE IF current_pdf_document_plumber = None
  THEN [kind |-> "break", analyzing |-> TRUE,
        errors |-> {[text |-> "Plumber doc not open.", arg |-> 0]}]
  ELSE PageResult(ExtractPlumber(DocPage(current_pdf_document_fitz.path,
                                         workers[w].page_idx, doc_fault),
                                 [sigil_counter |-> sigil_counter, files |-> image_files]))

\* What one iteration of the loop at lines 435-447 does for thread w:
\* "break" (the abort check, or the plumber document missing), "raise"
\* (an exception reaches line 452) or "ok" with the page's result.
PageStep(w) ==
  IF ~root THEN [kind |-> "break", analyzing |-> FALSE, errors |-> {}]
  ELSE IF current_pdf_document_fitz = None THEN [kind |-> "raise"]
  ELSE IF use_ocr_var
  THEN PageResult(ExtractOcr(DocPage(current_pdf_document_fitz.path, workers[w].page_idx,
                                     doc_fault),
                             [sigil_counter |-> sigil_counter, files |-> image_files],
                             tesseract_installed))
  ELSE IF current_pdf_document_plumber = None
  THEN [kind |-> "break", analyzing |-> TRUE,
        errors |-> {[text |-> "Plumber doc not open.", arg |-> 0]}]
  ELSE PageResult(ExtractPlumber(DocPage(current_pdf_document_fitz.path,
                                         workers[w].page_idx, doc_fault),
                                 [sigil_counter |-> sigil_counter, files |-> image_files]))

\* The image paths of the metadata of a page's entries, in the order the
\* save calls returned them.
RECURSIVE ImagePaths(_, _)
ImagePaths(entries, i) ==
  IF i > Len(entries) THEN <<>>
  ELSE [k \in 1..Len(entries[i].sigils_metadata) |->
          entries[i].sigils_metadata[k].image_path] \o ImagePaths(entries, i + 1)

\* The effect of one iteration on the application's fields and on thread w.
\* The thread's record keeps the counter value of each _save_sigil_image
\* call it made (save_ids) and the paths the calls returned (saved_paths).
PageEffect(w, step) ==
  LET errs == {Logged(w, "ERROR", e.text, e.arg) : e \in step.errors}
  IN  CASE step.kind = "break" ->
             /\ workers' = [workers EXCEPT ![w].pc = "write"]
             /\ log_text' = log_text \cup errs
             /\ status_label' = IF step.analyzing THEN "Status: Analyzing page"
                                                   ELSE status_label
             /\ UNCHANGED <<all_extracted_data, sigil_counter, image_files,
                            progress_value, visual_elements>>
        [] step.kind = "raise" ->
             /\ ScanError(w)
             /\ workers' = [workers EXCEPT ![w].pc = "finally", ![w].outcome = "error"]
             /\ UNCHANGED <<all_extracted_data, sigil_counter, image_files,
                            progress_value, visual_elements>>
        [] step.kind = "ok" ->
             /\ all_extracted_data' = all_extracted_data \o step.entries
             /\ sigil_counter' = step.store.sigil_counter
             /\ image_files' = step.store.files
             /\ visual_elements' = step.visual
             /\ status_label' = "Status: Analyzing page"
             /\ log_text' = log_text \cup errs
             /\ progress_value' = progress_value + 1
             /\ workers' =
                  [workers EXCEPT
                     ![w].processed = Append(@, workers[w].page_idx),
                     ![w].save_ids =
                        @ \o [i \in 1..(step.store.sigil_counter - sigil_counter) |->
                                sigil_counter + i],
                     ![w].saved_paths = @ \o ImagePaths(step.entries, 1),
                     ![w].page_idx = @ + 1,
                     ![w].pc = IF workers[w].page_idx + 1 > workers[w].last_idx
                               THEN "write" ELSE "loop"]

\* scan_pdf_worker, one iteration of the loop at lines 435-447.
W_Page(w) ==
  /\ workers[w].pc = "loop"
  /\ PageEffect(w, PageStep(w))
  /\ UNCHANGED <<segVars, queryVars, current_pdf_document_fitz, current_pdf_document_plumber,
                 use_ocr_var, scan_start_page_idx, scan_end_page_idx, root,
                 tesseract_installed, doc_fault, json_file, open_handles>>

\* scan_pdf_worker, lines 448-450: the dataset file is rewritten.
W_Write(w) ==
  /\ workers[w].pc = "write"
  /\ json_file' = [entries |-> all_extracted_data]
  /\ log_text' = log_text \cup {Logged(w, "INFO", "Scan complete.", 0)}
  /\ status_label' = "Status: Scan Complete!"
  /\ workers' = [workers EXCEPT ![w].pc = "finally", ![w].outcome = "complete"]
  /\ UNCHANGED <<segVars, queryVars, visual_elements, all_extracted_data, sigil_counter, current_pdf_document_fitz,
                 current_pdf_document_plumber, use_ocr_var, scan_start_page_idx,
                 scan_end_page_idx, progress_value, root, tesseract_installed,
                 doc_fault, image_files, open_handles>>

\* W_Finally without the reset of the progress bar at line 457.
W_FinallyKeepsProgress(w) ==
  /\ workers[w].pc = "finally"
  /\ open_handles' = open_handles \ {current_pdf_document_fitz, current_pdf_document_plumber}
  /\ current_pdf_document_fitz' = None
  /\ current_pdf_document_plumber' = None
  /\ workers' = [workers EXCEPT ![w].pc = "done"]
  /\ UNCHANGED <<segVars, queryVars, visual_elements, all_extracted_data, sigil_counter, use_ocr_var,
                 scan_start_page_idx, scan_end_page_idx, status_label, log_text, root,
                 tesseract_installed, doc_fault, json_file, image_files, progress_value>>

\* scan_pdf_worker, the finally block at lines 453-457: whatever the two
\* fields hold is closed, and the fields are cleared.
W_Finally(w) ==
  /\ workers[w].pc = "finally"
  /\ open_handles' = open_handles \ {current_pdf_document_fitz, current_pdf_document_plumber}
  /\ current_pdf_document_fitz' = None
  /\ current_pdf_document_plumber' = None
  /\ progress_value' = 0
  /\ workers' = [workers EXCEPT ![w].pc = "done"]
  /\ UNCHANGED <<segVars, queryVars, visual_elements, all_extracted_data, sigil_counter, use_ocr_var,
                 scan_start_page_idx, scan_end_page_idx, status_label, log_text, root,
                 tesseract_installed, doc_fault, json_file, image_files>>

Next ==
  \/ StartScanThread
  \/ ToggleOcr
  \/ \E w \in 1..Len(workers) : W_Open(w)
  \/ \E w \in 1..Len(workers) : W_Validate(w)
  \/ \E w \in 1..Len(workers) : W_Page(w)
  \/ \E w \in 1..Len(workers) : W_Write(w)
  \/ \E w \in 1..Len(workers) : W_Finally(w)

Spec == Init /\ [][Next]_vars

\* The program embedded in a host that clears app.root while a scan runs:
\* the abort condition the loop tests at line 436.
ClearRoot ==
  /\ root
  /\ root' = FALSE
  /\ UNCHANGED <<segVars, queryVars, visual_elements, all_extracted_data, sigil_counter, current_pdf_document_fitz,
                 current_pdf_document_plumber, use_ocr_var, scan_start_page_idx,
                 scan_end_page_idx, status_label, log_text, progress_value,
                 tesseract_installed, doc_fault, json_file, image_files,
                 open_handles, workers>>

NextAbort == Next \/ ClearRoot

SpecAbort == Init /\ [][NextAbort]_vars

\* The user who runs scans one after the other: the strategy is chosen
\* before the first scan, and a scan is requested only while no worker is
\* running.
ChooseOcr ==
  /\ workers = <<>>
  /\ ToggleOcr

StartScanInSequence ==
  /\ \A w \in 1..Len(workers) : workers[w].pc = "done"
  /\ StartScanThread

NextRerun ==
  \/ ChooseOcr
  \/ StartScanInSequence
  \/ \E w \in 1..Len(workers) : W_Open(w)
  \/ \E w \in 1..Len(workers) : W_Validate(w)
  \/ \E w \in 1..Len(workers) : W_Page(w)
  \/ \E w \in 1..Len(workers) : W_Write(w)
  \/ \E w \in 1..Len(workers) : W_Finally(w)

SpecRerun == Init /\ [][NextRerun]_vars

\* The worker's variables while the segmenter is stepped through a page.
AppIdle ==
  /\ AppInit
  /\ tesseract_installed = TRUE
  /\ doc_fault = NoFault

SegSpecInit == SegInit /\ AppIdle

SegSpec == SegSpecInit /\ [][SegNext]_vars

(***************************************************************************)
(* The segmenter's contract, stated on the page's lines                    *)
(***************************************************************************)

\* The line as the segmenter looks at it.
Trimmed(i) == Strip(lines_for_parsing[i])

\* The indices, among the first n lines, of the lines that match the heading
\* pattern.
HeadingIdx(n) ==
  {i \in 1..n : Trimmed(i) # <<>> /\ HeadingMatch(Trimmed(i)).matched}

\* The j-th smallest element of a set of integers.
Nth(S, j) == CHOOSE x \in S : Cardinality({y \in S : y < x}) = j - 1

RECURSIVE NonEmptyTrimmed(_, _)
\* The non-empty trimmed lines lo..hi, in order.
NonEmptyTrimmed(lo, hi) ==
  IF lo > hi THEN <<>>
  ELSE (IF Trimmed(lo) # <<>> THEN <<Trimmed(lo)>> ELSE <<>>)
         \o NonEmptyTrimmed(lo + 1, hi)

\* The fragments of the entry whose heading line is line i, up to line hi.
ExpectedParts(i, hi) ==
  LET hm == HeadingMatch(Trimmed(i))
      rest == Strip(SubSeq(Trimmed(i), hm.end + 1, Len(Trimmed(i))))
  IN  (IF rest # <<>> THEN <<rest>> ELSE <<>>) \o NonEmptyTrimmed(i + 1, hi)

\* The last line of the entry that is the j-th of the page.
EntryLastLine(j) ==
  LET H == HeadingIdx(Len(lines_for_parsing))
  IN  IF j < Cardinality(H) THEN Nth(H, j + 1) - 1 ELSE Len(lines_for_parsing)

SegPageNumber == seg_number + 1

\* C1: in either strategy the page's entries are, one for one and in order,
\* the lines that match the heading pattern, with heading and class the
\* trimmed capture groups of the entry's own heading line.  While the loop
\* runs, the emitted entries followed by the open one are the heading lines
\* seen so far.
C1_OneEntryPerHeadingLine ==
  LET H == HeadingIdx(line_pos)
      built == IF seg_pc = "done" \/ current_entry = None THEN entries_data
               ELSE Append(entries_data, current_entry)
  IN  /\ Len(built) = Cardinality(H)
      /\ \A j \in 1..Len(built) :
            LET hm == HeadingMatch(Trimmed(Nth(H, j)))
            IN  /\ built[j].heading = Strip(hm.group1)
                /\ built[j].class = Strip(hm.group2)

\* A finished page with two heading lines among its three lines, one of them with
\* a first capture group that trimming shortens.
C1_Witness ==
  /\ seg_pc = "done"
  /\ Len(entries_data) = 2
  /\ Len(lines_for_parsing) = 3
  /\ \E j \in 1..2 :
        LET hm == HeadingMatch(Trimmed(Nth(HeadingIdx(3), j)))
        IN  hm.group1 # entries_data[j].heading

\* C2: every emitted entry's description is the trimmed single-space join of
\* the trimmed rest of its heading line (when not empty) and the non-empty
\* trimmed lines up to the next heading line or the end of the page; the
\* scenario page yields FOO and BAR with the descriptions of the scenario.
C2_DescriptionIsJoinedLines ==
  /\ \A j \in 1..Len(entries_data) :
        LET H == HeadingIdx(line_pos)
            hi == IF j < Cardinality(H) THEN Nth(H, j + 1) - 1 ELSE Len(lines_for_parsing)
        IN  entries_data[j].description = Strip(Join(ExpectedParts(Nth(H, j), hi)))
  /\ (seg_pc = "done" /\ lines_for_parsing = <<ScenarioFoo, ScenarioSecond, ScenarioBar>>)
       => /\ Len(entries_data) = 2
          /\ entries_data[1].heading = <<"F","O","O">>
          /\ entries_data[1].description =
               <<"f","i","r","s","t"," ","l","i","n","e"," ","s","e","c","o","n","d"," ","l","i","n","e">>
          /\ entries_data[2].heading = <<"B","A","R">>
          /\ entries_data[2].description = <<"t","h","i","r","d"," ","l","i","n","e">>
          /\ \A j \in 1..2 : entries_data[j].page_number = SegPageNumber

\* A finished page whose first entry is made of the rest of its heading line
\* and a following line.
C2_Witness ==
  /\ seg_pc = "done"
  /\ Len(entries_data) >= 1
  /\ Len(lines_for_parsing) = 3
  /\ 1 \in HeadingIdx(3) /\ 2 \notin HeadingIdx(3)
  /\ Len(ExpectedParts(1, 2)) = 2
  /\ entries_data[1].description # ExpectedParts(1, 2)[1]

\* C3: every emitted entry's references are the trimmed matches of the
\* bibliography pattern in its description, each once, in ascending order;
\* the ABRACADABRA line yields the entry of the scenario.
C3_ReferencesSortedSet ==
  /\ \A j \in 1..Len(entries_data) :
        LET refs == entries_data[j].references_raw
        IN  /\ {refs[i] : i \in 1..Len(refs)} = BiblioSet(entries_data[j].description)
            /\ \A a, b \in 1..Len(refs) : a < b => StrLess(refs[a], refs[b])
  /\ (seg_pc = "done" /\ lines_for_parsing = <<ScenarioAbracadabra>>)
       => /\ Len(entries_data) = 1
          /\ entries_data[1].heading = <<"A","B","R","A","C","A","D","A","B","R","A">>
          /\ entries_data[1].class = <<"S","y","m",".">>
          /\ entries_data[1].description =
               <<"A"," ","m","y","s","t","i","c","a","l"," ","w","o","r","d"," ","o","f"," ","p","o","w","e","r","."," ","A","g","r","i","p","p","a"," ","1","5","3","3",".">>
          /\ entries_data[1].references_raw =
               << <<"A","g","r","i","p","p","a"," ","1","5","3","3">> >>

\* An emitted entry whose description holds three matches, two of them equal,
\* found in an order that is not the sorted one.
C3_Witness ==
  \E j \in 1..Len(entries_data) :
     LET ms == BiblioFindIter(entries_data[j].description, 1)
     IN  /\ Len(ms) = 3
         /\ Len(entries_data[j].references_raw) = 2
         /\ StrLess(Strip(ms[2]), Strip(ms[1]))

(***************************************************************************)
(* Claims about the scan worker (Spec, SpecAbort)                          *)
(***************************************************************************)

Threads == 1..Len(workers)

\* Thread w has logged an error.
HasError(w) == \E l \in log_text : l.thread = w /\ l.level = "ERROR"

\* Thread w has logged the failure of the OCR of a page.
OcrErrorLogged(w) == \E l \in log_text : l.thread = w /\ l.text = "OCR error page"

\* Thread w logs an error in this step.
LogsError(w) == \E l \in log_text' \ log_text : l.thread = w /\ l.level = "ERROR"

OutputUnchanged ==
  /\ all_extracted_data' = all_extracted_data
  /\ sigil_counter' = sigil_counter
  /\ json_file' = json_file
  /\ image_files' = image_files

\* C4: a dataset file that exists is rewritten only by the write step of a
\* scan that logged no error: a scan that failed (rejected range, OCR engine
\* unavailable, exception on a page) leaves the file as it was.
C4_DatasetRewrittenOnlyBySuccessfulScan ==
  [][(json_file # None /\ json_file' # json_file) =>
        \E w \in Threads : /\ workers[w].pc = "write"
                           /\ workers'[w].pc = "finally"
                           /\ ~HasError(w)]_vars

\* C5: at any time at most one scan worker is running.
C5_AtMostOneWorkerRunning ==
  Cardinality({w \in Threads : workers[w].pc # "done"}) <= 1

\* C6: once the OCR of a page has failed because Tesseract is not installed,
\* the scan processes no further page and does not end as a completed scan
\* (it ends with the Tesseract error).
C6_TesseractMissingAbortsScan ==
  [][\A w \in Threads :
        (~tesseract_installed /\ OcrErrorLogged(w)) =>
           /\ workers'[w].processed = workers[w].processed
           /\ workers'[w].outcome # "complete"]_vars

\* C7: once a scan has logged an error raised by a malformed page, in either
\* strategy, it processes no later page; the step that logs the error keeps
\* the accumulated dataset.
C7_PageErrorStopsScanKeepsData ==
  [][\A w \in Threads :
        /\ (doc_fault.kind # "none" /\ HasError(w)) =>
              workers'[w].processed = workers[w].processed
        /\ (doc_fault.kind # "none" /\ LogsError(w)) =>
              all_extracted_data' = all_extracted_data]_vars

\* C8: when a scan worker ends, on any path, the handles it opened are
\* closed and the two handle fields are None.
C8_HandlesReleasedWhenWorkerEnds ==
  [][\A w \in Threads :
        (workers[w].pc = "finally" /\ workers'[w].pc = "done") =>
           /\ \A h \in open_handles' : h.owner # w
           /\ current_pdf_document_fitz' = None
           /\ current_pdf_document_plumber' = None]_vars

RangeOutside(start_idx, end_idx) ==
  \/ ~(0 <= start_idx /\ start_idx < NumPages)
  \/ ~(0 <= end_idx /\ end_idx < NumPages)
  \/ end_idx < start_idx

\* C10 as stated: a request whose start or end page is outside the document,
\* or whose end page is before its start page, changes neither the
\* accumulated dataset nor the sigil counter nor an output file, and its
\* worker is turned down by the range check.
C10_RejectionChangesNothing ==
  [][/\ (Len(workers') > Len(workers)
         /\ RangeOutside(scan_start_page_idx', scan_end_page_idx')) => OutputUnchanged
     /\ \A w \in Threads :
           (/\ workers[w].pc = "validate" /\ workers'[w] # workers[w]
            /\ current_pdf_document_fitz # None
            /\ RangeOutside(scan_start_page_idx, scan_end_page_idx)) =>
              workers'[w].outcome \in {"rejected_start", "rejected_end"}]_vars

\* C10 amended: a request that starts no worker (no file, non-numeric bounds:
\* "Invalid page numbers.") changes neither the dataset, the counter nor an
\* output file; a request that starts one resets the dataset and the
\* counter.  The worker's range check processes no page and changes no
\* output: it rejects a start page outside the document with "Start page out
\* of bounds.", an end page that, clamped to the last page, lies before the
\* start page with "End page before start.", and accepts every other range,
\* an end page beyond the document included.
C10_RejectionsAsImplemented ==
  [][/\ workers' = workers => OutputUnchanged
     /\ (\E l \in log_text' \ log_text : l.thread = 0 /\ l.level = "ERROR") =>
           workers' = workers
     /\ Len(workers') > Len(workers) => all_extracted_data' = <<>> /\ sigil_counter' = 0
     /\ \A w \in Threads :
           (/\ workers[w].pc = "validate" /\ workers'[w] # workers[w]
            /\ current_pdf_document_fitz # None) =>
              /\ OutputUnchanged
              /\ workers'[w].processed = <<>>
              /\ IF ~(0 <= scan_start_page_idx /\ scan_start_page_idx < NumPages)
                 THEN /\ workers'[w].outcome = "rejected_start"
                      /\ Logged(w, "ERROR", "Start page out of bounds.", 0) \in log_text'
                 ELSE IF Min(scan_end_page_idx, NumPages - 1) < scan_start_page_idx
                 THEN /\ workers'[w].outcome = "rejected_end"
                      /\ Logged(w, "ERROR", "End page before start.", 0) \in log_text'
                 ELSE /\ workers'[w].pc = "loop"
                      /\ workers'[w].outcome = "running"]_vars

\* C10 witness: after a scan that wrote entries, a second request was turned
\* down by the range check; the dataset file still holds the first scan's
\* entries while the accumulated dataset was reset by the request.
C10_Witness ==
  \E w \in Threads :
     /\ workers[w].pc = "done"
     /\ workers[w].outcome \in {"rejected_start", "rejected_end"}
     /\ json_file # None
     /\ json_file.entries # <<>>
     /\ all_extracted_data = <<>>

(***************************************************************************)
(* Claims about repeated scans (SpecRerun)                                 *)
(***************************************************************************)

\* The first and last page index of the range worker w scans, once it has
\* passed the range check.
RangeOf(w) ==
  [first |-> IF workers[w].processed = <<>> THEN workers[w].page_idx
             ELSE workers[w].processed[1],
   last |-> workers[w].last_idx]

\* Worker w repeats the completed scan of the worker before it.
Reruns(w) ==
  /\ w > 1
  /\ workers[w - 1].outcome = "complete"
  /\ workers[w].pc \in {"loop", "write"}
  /\ RangeOf(w) = RangeOf(w - 1)

\* C11: a scan run again, after it completed, over the same document and
\* page range rewrites no image file with another content and leaves in the
\* dataset file exactly what the first run wrote: the same entries in the
\* same order, with the same sigil file names and id counters.
C11_RerunReproducesDataset ==
  [][\A w \in Threads :
        Reruns(w) =>
           /\ image_files' = image_files
           /\ (workers'[w].pc = "finally" => json_file' = json_file)]_vars

\* C11 witness: both pages were scanned twice; the dataset file holds
\* entries with saved sigils.
C11_Witness ==
  \E w \in Threads :
     /\ w > 1
     /\ workers[w].pc = "done" /\ workers[w].outcome = "complete"
     /\ workers[w - 1].outcome = "complete"
     /\ workers[w].processed = <<0, 1>>
     /\ workers[w - 1].processed = <<0, 1>>
     /\ json_file # None
     /\ \E i \in 1..Len(json_file.entries) : json_file.entries[i].sigils_metadata # <<>>


(***************************************************************************)
(* Sigil metadata and the image store                                      *)
(***************************************************************************)

\* The sigil metadata of a sequence of entries.
SigilsOf(entries) ==
  UNION {{entries[i].sigils_metadata[k] : k \in 1..Len(entries[i].sigils_metadata)} :
           i \in 1..Len(entries)}

\* The step is one in which a worker finished extracting a page.
PageExtracted == \E w \in Threads : workers'[w].processed # workers[w].processed

\* The entries the step appended to the dataset.
AppendedEntries ==
  SubSeq(all_extracted_data', Len(all_extracted_data) + 1, Len(all_extracted_data'))

\* C12: every sigil metadata of the dataset, in memory or on disk, names an
\* image file that is in the image store; a page's extraction writes image
\* files only for the metadata it records, one "saved_sigil" annotation per
\* metadata; and a token whose crop has zero width or height is annotated
\* "potential_symbol", with no metadata and no file.
C12_MetadataRefersToWrittenImage ==
  [][/\ \A m \in SigilsOf(all_extracted_data') :
           m.image_path # None /\ m.image_path \in DOMAIN image_files'
     /\ json_file' # None =>
           \A m \in SigilsOf(json_file'.entries) : m.image_path \in DOMAIN image_files'
     /\ PageExtracted =>
           /\ \A f \in DOMAIN image_files' \ DOMAIN image_files :
                 \E m \in SigilsOf(AppendedEntries) : m.image_path = f
           /\ Cardinality({k \in 1..Len(visual_elements') :
                             visual_elements'[k].type = "saved_sigil"})
                 = Cardinality(SigilsOf(AppendedEntries))
           /\ \A k \in 1..Len(visual_elements') :
                 LET ve == visual_elements'[k]
                 IN  /\ ve.type = "saved_sigil" =>
                           \E m \in SigilsOf(AppendedEntries) : m.source_text = ve.text_snippet
                     /\ (use_ocr_var /\ (ve.rect[3] = 0 \/ ve.rect[4] = 0)) =>
                           /\ ve.type = "potential_symbol"
                           /\ \A m \in SigilsOf(AppendedEntries) :
                                 m.source_text # ve.text_snippet]_vars

\* A raster scan has gone through both pages: the "*" of the first page was
\* saved and recorded, the "/" of the second, whose box has no width, is
\* annotated as a potential symbol only.
C12_Witness ==
  /\ use_ocr_var
  /\ \E w \in Threads : workers[w].processed = <<0, 1>>
  /\ \E m \in SigilsOf(all_extracted_data) :
        m.source_text = <<"*">> /\ m.image_path \in DOMAIN image_files
  /\ \E k \in 1..Len(visual_elements) :
        /\ visual_elements[k].type = "potential_symbol"
        /\ visual_elements[k].text_snippet = <<"/">>
        /\ visual_elements[k].rect[3] = 0
  /\ \A m \in SigilsOf(all_extracted_data) : m.source_text # <<"/">>

(***************************************************************************)
(* Sigil file names                                                        *)
(***************************************************************************)

\* The first 30 characters of a heading with every character that is not a
\* word character replaced.
WordOnlyPrefix(entry_heading) ==
  LET n == IF Len(entry_heading) < HeadingPrefixLen THEN Len(entry_heading)
           ELSE HeadingPrefixLen
  IN  [i \in 1..n |-> IF entry_heading[i] \in WordChars THEN entry_heading[i] ELSE "_"]

\* The counter values the save calls of the threads have used so far.
UsedIds == UNION {{workers[w].save_ids[i] : i \in 1..Len(workers[w].save_ids)} : w \in Threads}

\* C13: within one scan the counter values of the save calls are strictly
\* increasing, so that no two images saved by the scan have the same file
\* name.
C13_FileNamesDistinctWithinScan ==
  \A w \in Threads :
     /\ \A i, j \in 1..Len(workers[w].save_ids) :
           i < j => workers[w].save_ids[i] < workers[w].save_ids[j]
     /\ \A i, j \in 1..Len(workers[w].saved_paths) :
           i < j => workers[w].saved_paths[i] # workers[w].saved_paths[j]

\* The clause of C13 on the prefix: the name of a saved image is
\* sigil_<prefix>_p<page>_id<counter>.png where the prefix is the first 30
\* characters of the owning heading with every non-word character replaced.
C13_PrefixReplacesEveryNonWord ==
  \A m \in SigilsOf(all_extracted_data) :
     \E id \in UsedIds :
        m.image_path = SigilFileName(WordOnlyPrefix(m.parent_entry_heading),
                                     m.page_number, id)

\* What the code does: the hyphen, the period and the space are kept.
C13_PrefixAsImplemented ==
  \A m \in SigilsOf(all_extracted_data) :
     \E id \in UsedIds :
        m.image_path = SigilFileName(CleanHeading(m.parent_entry_heading),
                                     m.page_number, id)

(***************************************************************************)
(* The accumulated dataset                                                 *)
(***************************************************************************)

\* The text lines of the page with 1-based number n.
PageLines(n) == DocPage(PdfPath, n - 1, NoFault).text_lines

RECURSIVE HeadingsFrom(_, _)
\* The headings of the heading lines among lines[i..], in line order.
HeadingsFrom(lines, i) ==
  IF i > Len(lines) THEN <<>>
  ELSE LET hm == HeadingMatch(Strip(lines[i]))
       IN  (IF Strip(lines[i]) # <<>> /\ hm.matched THEN <<Strip(hm.group1)>> ELSE <<>>)
              \o HeadingsFrom(lines, i + 1)

\* The headings of the dataset's entries of page n, in dataset order.
DatasetHeadings(n) ==
  LET es == SelectSeq(all_extracted_data, LAMBDA e : e.page_number = n)
  IN  [i \in 1..Len(es) |-> es[i].heading]

\* references_raw is sorted and holds no duplicate.
ReferencesSorted(e) ==
  \A i, j \in 1..Len(e.references_raw) :
     i < j => StrLess(e.references_raw[i], e.references_raw[j])

\* C19: the dataset lists the entries of the processed pages in ascending
\* page order and, within a page, in the order of their heading lines, and
\* every element is finalized: a description, a sorted references list and
\* no fragment list.
C19_DatasetOrderedAndFinalized ==
  /\ \A i, j \in 1..Len(all_extracted_data) :
        i < j => all_extracted_data[i].page_number <= all_extracted_data[j].page_number
  /\ \A n \in 1..NumPages :
        DatasetHeadings(n) \in {<<>>, HeadingsFrom(PageLines(n), 1)}
  /\ \A i \in 1..Len(all_extracted_data) :
        /\ IsFinalEntry(all_extracted_data[i])
        /\ ReferencesSorted(all_extracted_data[i])

\* The part of C19 that does not depend on which threads append: every
\* element of the dataset is finalized.
C19_ElementsFinalized ==
  \A i \in 1..Len(all_extracted_data) :
     /\ IsFinalEntry(all_extracted_data[i])
     /\ ReferencesSorted(all_extracted_data[i])

(***************************************************************************)
(* The two strategies segment alike                                        *)
(***************************************************************************)

\* What the segmenter of the strategy that is not running holds after the
\* first n lines of the page: the raster strategy numbers the page
\* fitz_page.number + 1, the vector strategy plumber_page.page_number.
OtherStrategyLines(n) ==
  IF seg_strategy = "ocr"
  THEN PlumberSegLines(SegStart, SubSeq(lines_for_parsing, 1, n), 1, seg_number + 1)
  ELSE OcrSegLines(SegStart, SubSeq(lines_for_parsing, 1, n), 1, seg_number)

\* The entries the other strategy returns for the whole page.
OtherStrategyEntries ==
  IF seg_strategy = "ocr"
  THEN PlumberSegEnd(OtherStrategyLines(Len(lines_for_parsing))).entries_data
  ELSE OcrSegEnd(OtherStrategyLines(Len(lines_for_parsing))).entries_data

\* C18: on the same page number and the same lines the raster and the
\* vector strategy hold the same open entry and the same emitted entries
\* after every line, and return identical lists of entries (heading, class,
\* description, references_raw, page_number).
C18_StrategiesSegmentAlike ==
  /\ seg_pc = "lines" => SegState = OtherStrategyLines(line_pos)
  /\ seg_pc = "done" => entries_data = OtherStrategyEntries

\* The vector strategy has returned two entries for a page, one of them with
\* a reference.
C18_Witness ==
  /\ seg_pc = "done"
  /\ seg_strategy = "direct"
  /\ Len(entries_data) >= 2
  /\ \E i \in 1..Len(entries_data) : entries_data[i].references_raw # <<>>
  /\ Len(OtherStrategyEntries) >= 2

(***************************************************************************)
(* The Query and Sigil Search tabs                                         *)
(***************************************************************************)

\* DRAW_CANVAS_WIDTH, DRAW_CANVAS_HEIGHT, DRAW_BG_COLOR
DRAW_CANVAS_WIDTH == 250
DRAW_CANVAS_HEIGHT == 250
DRAW_BG_COLOR == "white"

\* matches[:10]
TopMatchCount == 10

\* Bound: the number of bits of a perceptual hash.
HashBits == 2

\* Bound: the number of sigils of the largest dataset on disk.
MaxSigils == 12

\* Bound: the number of line segments a drawing holds.
MaxStrokes == 2

\* The positions the pointer is dragged over.
DragPoints == {<<0, 5>>, <<5, 5>>, <<5, 9>>}

\* A file that json.load cannot decode.
Malformed == [malformed |-> TRUE]

\* An image file that Image.open cannot read.
Corrupt == [corrupt |-> TRUE]

\* Image.getcolors(1) of the drawing: the one colour and its pixel count, or
\* nothing (None, here <<>>) when the image holds more than one colour.  A
\* segment between two positions of the canvas leaves pixels of DRAW_COLOR.
GetColors1(image) ==
  IF image = {}
  THEN <<[count |-> DRAW_CANVAS_WIDTH * DRAW_CANVAS_HEIGHT, color |-> DRAW_BG_COLOR]>>
  ELSE <<>>

\* CanvasIsBlank without the test of the colour: no drawing counts as blank.
CanvasNeverBlank(image) == GetColors1(image) # <<>> /\ GetColors1(image)[1].color # DRAW_BG_COLOR

\* The test of lines 654-655.
CanvasIsBlank(image) ==
  /\ GetColors1(image) # <<>>
  /\ GetColors1(image)[1].color = DRAW_BG_COLOR
  /\ GetColors1(image)[1].count = DRAW_CANVAS_WIDTH * DRAW_CANVAS_HEIGHT

\* imagehash.phash of the drawing (line 657): a function of its content, as
\* a set of bits.
PHashDrawn(image) ==
  {b \in 1..HashBits : \E s \in image : (s.to[1] + s.to[2] + b) % 2 = 0}

\* imagehash.phash of a stored crop (line 665): a function of its content.
PHashStored(content) ==
  {b \in 1..HashBits : (content.clip[1].num \div (2 ^ (b - 1))) % 2 = 1}

\* drawn_hash - db_hash: the number of bits in which the hashes differ.
HashDistance(h1, h2) == Cardinality((h1 \ h2) \cup (h2 \ h1))

\* The metadata and the crop of the sigil with counter value id.
CorpusSigil(heading, page_number, id) ==
  [image_path |-> SigilFileName(CleanHeading(heading), page_number, id),
   parent_entry_heading |-> heading,
   page_number |-> page_number,
   source_text |-> <<"*">>,
   bounding_box_pdf_coords |-> <<Frac(id, 1), Frac(0, 1), Frac(id + 4, 1), Frac(4, 1)>>,
   extraction_method |-> "direct"]

CorpusCrop(page_number, id) ==
  [page |-> [doc |-> PdfPath, number |-> page_number - 1],
   clip |-> <<Frac(id, 1), Frac(0, 1), Frac(id + 4, 1), Frac(4, 1)>>]

\* A finalized entry with the sigils first..last.
CorpusEntry(heading, page_number, first, last) ==
  [heading |-> heading, class |-> <<"C","d",".">>,
   sigils_metadata |-> [k \in 1..(last - first + 1) |->
                          CorpusSigil(heading, page_number, first + k - 1)],
   description |-> <<"x">>, references_raw |-> <<>>, page_number |-> page_number]

\* The datasets earlier scans have left on disk: no entry, entries without
\* sigils, three sigils, MaxSigils sigils.
EmptyCorpus == <<>>
NoSigilCorpus == <<CorpusEntry(<<"A","B">>, 1, 1, 0), CorpusEntry(<<"Q","1">>, 1, 1, 0)>>
SmallCorpus ==
  <<CorpusEntry(<<"A","B">>, 1, 1, 2), CorpusEntry(<<"Q","1">>, 1, 1, 0),
    CorpusEntry(<<"E","-","F">>, 2, 3, 3)>>
BigCorpus ==
  <<CorpusEntry(<<"A","B">>, 1, 1, 5), CorpusEntry(<<"Q","1">>, 1, 1, 0),
    CorpusEntry(<<"E","-","F">>, 2, 6, MaxSigils)>>

\* The counter value of a sigil of a dataset.
CorpusId(m) == m.bounding_box_pdf_coords[1].num

\* The image directory that goes with a dataset, the crops of the sigils in
\* missing deleted and those in corrupt overwritten since the scan.
CorpusFiles(corpus, missing, corrupt) ==
  LET ms == {m \in SigilsOf(corpus) : CorpusId(m) \notin missing}
  IN  [f \in {m.image_path : m \in ms} |->
         LET m == CHOOSE x \in ms : x.image_path = f
         IN  IF CorpusId(m) \in corrupt THEN Corrupt
             ELSE CorpusCrop(m.page_number, CorpusId(m))]

\* The output directory when the program starts.
Disks ==
  {[json |-> None, images |-> <<>>], [json |-> Malformed, images |-> <<>>],
   [json |-> [entries |-> EmptyCorpus], images |-> <<>>],
   [json |-> [entries |-> NoSigilCorpus], images |-> <<>>]}
  \cup {[json |-> [entries |-> c], images |-> CorpusFiles(c, missing, corrupt)] :
          c \in {SmallCorpus, BigCorpus}, missing \in {{}, {2}}, corrupt \in {{}, {3}}}

QueryInit ==
  /\ all_extracted_data = <<>>
  /\ sigil_counter = 0
  /\ current_pdf_document_fitz = None
  /\ current_pdf_document_plumber = None
  /\ use_ocr_var = FALSE
  /\ scan_start_page_idx = None
  /\ scan_end_page_idx = None
  /\ status_label = "Status: Idle"
  /\ log_text = {}
  /\ progress_value = 0
  /\ root = TRUE
  /\ open_handles = {}
  /\ visual_elements = <<>>
  /\ workers = <<>>
  /\ tesseract_installed = TRUE
  /\ doc_fault = NoFault
  /\ \E disk \in Disks :
        /\ json_file = disk.json
        /\ image_files = disk.images
  /\ QueryStart
  /\ SegIdle

\* What the handlers of the two tabs leave alone: the scanner and the
\* segmenter.
ScannerUnchanged ==
  UNCHANGED <<segVars, all_extracted_data, sigil_counter, current_pdf_document_fitz,
              current_pdf_document_plumber, use_ocr_var, scan_start_page_idx,
              scan_end_page_idx, status_label, progress_value, root,
              tesseract_installed, doc_fault, open_handles, visual_elements, workers>>

\* messagebox.showerror / messagebox.showinfo
Dialog(kind, title, message) == [kind |-> kind, title |-> title, message |-> message]

\* display_query_results (lines 595-612): what query_results_text shows.
DisplayQueryResults(data_to_display) ==
  IF data_to_display = <<>> THEN [text |-> "No entries to display."]
  ELSE [entries |-> data_to_display]

\* LoadScannedData with the dataset emptied when the file cannot be read.
LoadScannedDataClearing(file, current, shown) ==
  IF file = [none |-> TRUE]
  THEN [scanned |-> <<>>, shown |-> shown,
        dialogs |-> <<[kind |-> "showerror", title |-> "Error",
                       message |-> "Data file not found"]>>,
        logs |-> {[thread |-> 0, level |-> "ERROR", text |-> "Error: not found.", arg |-> 0]}]
  ELSE IF file = [malformed |-> TRUE]
  THEN [scanned |-> <<>>, shown |-> shown,
        dialogs |-> <<[kind |-> "showerror", title |-> "Error",
                       message |-> "Could not decode JSON"]>>,
        logs |-> {[thread |-> 0, level |-> "ERROR",
                   text |-> "Error: Could not decode JSON", arg |-> 0]}]
  ELSE [scanned |-> file.entries,
        shown |-> IF file.entries = <<>> THEN [text |-> "No entries to display."]
                  ELSE [entries |-> file.entries],
        dialogs |-> <<>>,
        logs |-> {[thread |-> 0, level |-> "INFO", text |-> "Loaded entries for querying.",
                   arg |-> Len(file.entries)]}]

\* load_scanned_data_for_query on the dataset file: the value of
\* scanned_data_for_query, the dialogs and the log messages it adds and what
\* query_results_text shows afterwards.  The assignment of line 570 is not
\* reached when open or json.load raises.
LoadScannedData(file, current, shown) ==
  IF file = None
  THEN [scanned |-> current, shown |-> shown,
        dialogs |-> <<Dialog("showerror", "Error", "Data file not found")>>,
        logs |-> {Logged(0, "ERROR", "Error: not found.", 0)}]
  ELSE IF file = Malformed
  THEN [scanned |-> current, shown |-> shown,
        dialogs |-> <<Dialog("showerror", "Error", "Could not decode JSON")>>,
        logs |-> {Logged(0, "ERROR", "Error: Could not decode JSON", 0)}]
  ELSE [scanned |-> file.entries, shown |-> DisplayQueryResults(file.entries),
        dialogs |-> <<>>,
        logs |-> {Logged(0, "INFO", "Loaded entries for querying.", Len(file.entries))}]

\* The button "Load Scanned Data" (line 173).
LoadScannedDataForQuery ==
  /\ LET ld == LoadScannedData(json_file, scanned_data_for_query, query_results_text)
     IN  /\ scanned_data_for_query' = ld.scanned
         /\ query_results_text' = ld.shown
         /\ messagebox' = ld.dialogs
         /\ log_text' = log_text \cup ld.logs
  /\ last_handler' = "load"
  /\ ScannerUnchanged
  /\ UNCHANGED <<json_file, image_files, draw_last_x, draw_last_y, drawn_image_pil,
                 sigil_search_status_label, sigil_search_results>>

\* Python's truth value of draw_last_x and of draw_last_y: None and 0 are
\* false.
Truthy(v) == v # <<>> /\ v[1] # 0

\* paint_on_draw_canvas (lines 627-634) for a motion event at <<x, y>>.
PaintOnDrawCanvas(x, y) ==
  /\ drawn_image_pil' =
       IF Truthy(draw_last_x) /\ Truthy(draw_last_y)
       THEN drawn_image_pil \cup
              {[from |-> <<draw_last_x[1], draw_last_y[1]>>, to |-> <<x, y>>]}
       ELSE drawn_image_pil
  /\ draw_last_x' = <<x>>
  /\ draw_last_y' = <<y>>
  /\ messagebox' = <<>>
  /\ last_handler' = "paint"
  /\ ScannerUnchanged
  /\ UNCHANGED <<json_file, image_files, log_text, scanned_data_for_query,
                 sigil_search_status_label, sigil_search_results, query_results_text>>

\* The pointer is dragged to another position of the canvas.
Drag ==
  \E p \in DragPoints :
     /\ <<draw_last_x, draw_last_y>> # <<<<p[1]>>, <<p[2]>>>>
     /\ Cardinality(drawn_image_pil) < MaxStrokes
     /\ PaintOnDrawCanvas(p[1], p[2])

\* reset_draw_canvas_pos (lines 636-637): the button is released.
ResetDrawCanvasPos ==
  /\ draw_last_x' = <<>>
  /\ draw_last_y' = <<>>
  /\ messagebox' = <<>>
  /\ last_handler' = "release"
  /\ ScannerUnchanged
  /\ UNCHANGED <<json_file, image_files, log_text, scanned_data_for_query, drawn_image_pil,
                 sigil_search_status_label, sigil_search_results, query_results_text>>

\* clear_drawing_canvas (lines 639-644): the whole image is painted in the
\* background colour.
ClearDrawingCanvas ==
  /\ drawn_image_pil' = {}
  /\ sigil_search_status_label' = LabelText("Canvas cleared. Draw a new symbol.", 0)
  /\ sigil_search_results' = [label |-> "Draw a symbol and click 'Search Drawn Sigil'."]
  /\ messagebox' = <<>>
  /\ last_handler' = "clear"
  /\ ScannerUnchanged
  /\ UNCHANGED <<json_file, image_files, log_text, scanned_data_for_query, draw_last_x,
                 draw_last_y, query_results_text>>

RECURSIVE CorpusPairs(_, _)
\* The iteration of lines 660-661 from entry i on: every sigil with its
\* entry, in entry order and in sigil order within the entry.
CorpusPairs(data, i) ==
  IF i > Len(data) THEN <<>>
  ELSE [k \in 1..Len(data[i].sigils_metadata) |->
          [sigil_meta |-> data[i].sigils_metadata[k], parent_entry |-> data[i]]]
       \o CorpusPairs(data, i + 1)

\* Image.open and imagehash.phash of a stored image raise on a file that is
\* not an image.
Hashable(files, img_path) == img_path \in DOMAIN files /\ files[img_path] # Corrupt

RECURSIVE Matches(_, _, _, _)
\* Lines 662-668 from pair i on: a sigil whose file does not exist is
\* passed over; one whose file cannot be opened or hashed is passed over too
\* and the failure is logged; the others are appended with their distance.
Matches(pairs, i, files, drawn_hash) ==
  IF i > Len(pairs) THEN <<>>
  ELSE (IF Hashable(files, pairs[i].sigil_meta.image_path)
        THEN <<[distance |-> HashDistance(drawn_hash,
                                          PHashStored(files[pairs[i].sigil_meta.image_path])),
                sigil_meta |-> pairs[i].sigil_meta,
                parent_entry |-> pairs[i].parent_entry]>>
        ELSE <<>>)
       \o Matches(pairs, i + 1, files, drawn_hash)

\* The messages of line 668, with the position of the sigil in the
\* iteration.
MatchWarnings(pairs, files) ==
  {Logged(0, "WARNING", "Error processing db image", i) :
     i \in {j \in 1..Len(pairs) :
              /\ pairs[j].sigil_meta.image_path \in DOMAIN files
              /\ files[pairs[j].sigil_meta.image_path] = Corrupt}}

\* The matches left in the order they were appended.
Unsorted(matches) == matches

\* Where list.sort puts m in a sorted list: behind the elements whose key is
\* not greater (the sort is stable).
InsertByDistance(sorted, m) ==
  LET n == Cardinality({j \in 1..Len(sorted) : sorted[j].distance <= m.distance})
  IN  SubSeq(sorted, 1, n) \o <<m>> \o SubSeq(sorted, n + 1, Len(sorted))

RECURSIVE SortFrom(_, _, _)
SortFrom(matches, i, sorted) ==
  IF i > Len(matches) THEN sorted
  ELSE SortFrom(matches, i + 1, InsertByDistance(sorted, matches[i]))

\* matches.sort(key=lambda x: x["distance"])
SortByDistance(matches) == SortFrom(matches, 1, <<>>)

\* top_matches = matches[:10]
TopMatches(matches) == SubSeq(matches, 1, Min(TopMatchCount, Len(matches)))

\* Lines 657-672 once the dataset and the drawing are accepted.
SearchMatches(top_matches, warnings, ld) ==
  /\ sigil_search_results' =
       IF top_matches = <<>> THEN [label |-> "No matches found."]
       ELSE [matches |-> top_matches]
  /\ sigil_search_status_label' =
       IF top_matches = <<>> THEN LabelText("Search complete. No matches found.", 0)
       ELSE LabelText("Search complete. Displaying top matches.", Len(top_matches))
  /\ messagebox' = ld.dialogs
  /\ log_text' = log_text \cup ld.logs \cup warnings

\* Lines 650-656 and what follows, ld being the outcome of the load of line
\* 651 (or the data already loaded).
SearchWith(ld) ==
  IF ld.scanned = <<>>
  THEN /\ messagebox' = Append(ld.dialogs,
                               Dialog("showerror", "Error", "Scanned data (JSON) not loaded."))
       /\ sigil_search_status_label' = LabelText("Error: Load scanned data first.", 0)
       /\ log_text' = log_text \cup ld.logs
       /\ UNCHANGED sigil_search_results
  ELSE IF CanvasIsBlank(drawn_image_pil)
  THEN /\ messagebox' = Append(ld.dialogs,
                               Dialog("showinfo", "Empty Canvas", "Please draw a symbol."))
       /\ sigil_search_status_label' = LabelText("Draw a symbol first.", 0)
       /\ log_text' = log_text \cup ld.logs
       /\ UNCHANGED sigil_search_results
  ELSE SearchMatches(TopMatches(SortByDistance(
                        Matches(CorpusPairs(ld.scanned, 1), 1, image_files,
                                PHashDrawn(drawn_image_pil)))),
                     MatchWarnings(CorpusPairs(ld.scanned, 1), image_files),
                     ld)

\* search_drawn_sigil_action (lines 647-672): the dataset is loaded when
\* scanned_data_for_query is empty, then the drawing is tested.
SearchLoaded(ld) ==
  /\ scanned_data_for_query' = ld.scanned
  /\ query_results_text' = ld.shown
  /\ SearchWith(ld)

\* SearchDrawnSigilAction reading the dataset file on every search, whether
\* or not a dataset is loaded.
SearchDrawnSigilActionReloading ==
  /\ SearchLoaded(LoadScannedData(json_file, scanned_data_for_query, query_results_text))
  /\ last_handler' = "search"
  /\ ScannerUnchanged
  /\ UNCHANGED <<json_file, image_files, draw_last_x, draw_last_y, drawn_image_pil>>

\* The button "Search Drawn Sigil" (line 202).
SearchDrawnSigilAction ==
  /\ SearchLoaded(IF scanned_data_for_query = <<>>
                  THEN LoadScannedData(json_file, scanned_data_for_query, query_results_text)
                  ELSE [scanned |-> scanned_data_for_query, shown |-> query_results_text,
                        dialogs |-> <<>>, logs |-> {}])
  /\ last_handler' = "search"
  /\ ScannerUnchanged
  /\ UNCHANGED <<json_file, image_files, draw_last_x, draw_last_y, drawn_image_pil>>

\* The dataset file is deleted, or overwritten with something that is not
\* JSON, outside the program.
DiskChange ==
  /\ \E file \in {None, Malformed} :
        /\ json_file # file
        /\ json_file' = file
  /\ ScannerUnchanged
  /\ UNCHANGED <<image_files, log_text, queryVars>>

QueryNext ==
  \/ LoadScannedDataForQuery
  \/ Drag
  \/ ResetDrawCanvasPos
  \/ ClearDrawingCanvas
  \/ SearchDrawnSigilAction
  \/ DiskChange

QuerySpec == QueryInit /\ [][QueryNext]_vars

(***************************************************************************)
(* The ranking of a search                                                 *)
(***************************************************************************)

\* The sigils of the loaded dataset in iteration order, and the positions of
\* those whose image is hashed.
Pairs == CorpusPairs(scanned_data_for_query, 1)
HashedPos == {i \in 1..Len(Pairs) : Hashable(image_files, Pairs[i].sigil_meta.image_path)}

\* The distance of the drawing to the sigil at position i.
DistAt(i) ==
  HashDistance(PHashDrawn(drawn_image_pil),
               PHashStored(image_files[Pairs[i].sigil_meta.image_path]))

\* The last handler was a search that went as far as ranking.
Ranked ==
  /\ last_handler = "search"
  /\ sigil_search_status_label.text \in {"Search complete. No matches found.",
                                         "Search complete. Displaying top matches."}

\* The matches on display.
Returned ==
  IF "matches" \in DOMAIN sigil_search_results THEN sigil_search_results.matches ELSE <<>>

\* The position in the iteration of the sigil of a match.
PosOf(m) == CHOOSE i \in 1..Len(Pairs) : Pairs[i].sigil_meta = m.sigil_meta

\* C14: a search returns at most 10 matches, each a hashed sigil of the
\* dataset with its distance, in non-decreasing order of distance and, at
\* equal distance, in iteration order (entry order, then sigil order); a
\* hashed sigil is left out only when 10 are returned, and its distance is
\* not smaller than that of any returned match.
C14_TopTenByDistanceStable ==
  Ranked =>
    /\ Len(Returned) <= 10
    /\ \A j \in 1..Len(Returned) :
          /\ \E i \in HashedPos : Pairs[i].sigil_meta = Returned[j].sigil_meta
          /\ Returned[j].distance = DistAt(PosOf(Returned[j]))
          /\ Returned[j].parent_entry = Pairs[PosOf(Returned[j])].parent_entry
    /\ \A j, k \in 1..Len(Returned) :
          j < k =>
            \/ Returned[j].distance < Returned[k].distance
            \/ /\ Returned[j].distance = Returned[k].distance
               /\ PosOf(Returned[j]) < PosOf(Returned[k])
    /\ \A i \in HashedPos \ {PosOf(Returned[j]) : j \in 1..Len(Returned)} :
          /\ Len(Returned) = 10
          /\ \A j \in 1..Len(Returned) : DistAt(i) >= Returned[j].distance

\* A search over more than 10 hashed sigils: 10 are returned, some at equal
\* and some at different distances, not in iteration order.
C14_Witness ==
  /\ Ranked
  /\ Cardinality(HashedPos) > 10
  /\ Len(Returned) = 10
  /\ \E j, k \in 1..Len(Returned) :
        /\ j < k
        /\ Returned[j].distance = Returned[k].distance
  /\ \E j, k \in 1..Len(Returned) :
        /\ j < k
        /\ Returned[j].distance < Returned[k].distance
        /\ PosOf(Returned[j]) > PosOf(Returned[k])
  /\ \E i \in HashedPos : \A j \in 1..Len(Returned) : PosOf(Returned[j]) # i

(***************************************************************************)
(* Searching with a blank sketch                                           *)
(***************************************************************************)

\* The step is a run of search_drawn_sigil_action.
SearchStep == last_handler' = "search" /\ json_file' = json_file

\* The dialog the handler showed last.
LastDialog(dialogs) == dialogs[Len(dialogs)]

PleaseDraw == Dialog("showinfo", "Empty Canvas", "Please draw a symbol.")
NotLoaded == Dialog("showerror", "Error", "Scanned data (JSON) not loaded.")

\* The search of the step went as far as hashing and ranking.
RankedNext ==
  sigil_search_status_label'.text \in {"Search complete. No matches found.",
                                       "Search complete. Displaying top matches."}

LoadedNoEntries ==
  /\ scanned_data_for_query' = <<>>
  /\ Logged(0, "INFO", "Loaded entries for querying.", 0) \in log_text'

\* After the step a dataset whose entries have no sigils is loaded.
LoadedNoSigils ==
  /\ scanned_data_for_query' # <<>>
  /\ SigilsOf(scanned_data_for_query') = {}

\* The handler of the step showed no error dialog.
NoErrorDialog == \A i \in 1..Len(messagebox') : messagebox'[i].kind # "showerror"

\* C16: a search with a sketch that is not blank against an empty corpus, a
\* loaded dataset with no entries or whose entries have no sigils, displays
\* "no matches" and shows no error.
C16_EmptyCorpusNoMatches ==
  [][(SearchStep /\ drawn_image_pil # {} /\ (LoadedNoEntries \/ LoadedNoSigils)) =>
        /\ sigil_search_results' = [label |-> "No matches found."]
        /\ NoErrorDialog]_vars

\* The case of C16 the code handles: entries without sigils.
C16_EntriesWithoutSigilsNoMatches ==
  [][(SearchStep /\ drawn_image_pil # {} /\ LoadedNoSigils) =>
        /\ sigil_search_results' = [label |-> "No matches found."]
        /\ NoErrorDialog]_vars

(***************************************************************************)
(* Sigils whose image cannot be used                                       *)
(***************************************************************************)

\* The positions of the sigils of the loaded dataset whose image file does
\* not exist, and of those whose file cannot be opened or hashed.
MissingPos == {i \in 1..Len(Pairs) : Pairs[i].sigil_meta.image_path \notin DOMAIN image_files}
UnreadablePos == (1..Len(Pairs)) \ (HashedPos \cup MissingPos)

\* A warning was logged for the sigil at position i.
Warned(i) == \E l \in log_text : l.level = "WARNING" /\ l.arg = i

\* The returned matches are the first of the ranking of exactly the hashed
\* sigils.
RanksHashedOnly ==
  /\ Len(Returned) = Min(TopMatchCount, Cardinality(HashedPos))
  /\ \A j \in 1..Len(Returned) : PosOf(Returned[j]) \in HashedPos

\* C17: a sigil whose image file is missing, or cannot be opened or hashed,
\* is skipped with a warning and does not abort the search: the result is
\* the ranking of exactly the other, hashed sigils.
C17_UnusableImageSkippedWithWarning ==
  Ranked =>
    /\ \A i \in MissingPos \cup UnreadablePos : Warned(i)
    /\ RanksHashedOnly

\* The cases of C17 the code handles: a file that cannot be opened or hashed
\* is skipped with a warning, a missing file is skipped, and the result
\* ranks exactly the hashed sigils.
C17_UnreadableImageSkippedWithWarning ==
  Ranked =>
    /\ \A i \in UnreadablePos : Warned(i)
    /\ \A i \in MissingPos : ~Warned(i)
    /\ RanksHashedOnly

(***************************************************************************)
(* Loading the dataset                                                     *)
(***************************************************************************)

\* The step is a run of load_scanned_data_for_query, from its button or
\* from a search that found no entries loaded.
LoadStep ==
  /\ json_file' = json_file
  /\ \/ last_handler' = "load"
     \/ last_handler' = "search" /\ scanned_data_for_query = <<>>

NotFound == Dialog("showerror", "Error", "Data file not found")
NotDecoded == Dialog("showerror", "Error", "Could not decode JSON")

\* C20: a load reports a missing dataset file and a file that is not JSON
\* with two different error dialogs and two different log messages, and
\* after either the dataset loaded before is unchanged.
C20_LoadErrorsDistinctDataKept ==
  [][LoadStep =>
       /\ json_file = None =>
             /\ messagebox' # <<>> /\ messagebox'[1] = NotFound
             /\ Logged(0, "ERROR", "Error: not found.", 0) \in log_text'
             /\ scanned_data_for_query' = scanned_data_for_query
       /\ json_file = Malformed =>
             /\ messagebox' # <<>> /\ messagebox'[1] = NotDecoded
             /\ Logged(0, "ERROR", "Error: Could not decode JSON", 0) \in log_text'
             /\ scanned_data_for_query' = scanned_data_for_query
       /\ json_file \notin {None, Malformed} =>
             \A i \in 1..Len(messagebox') : messagebox'[i] \notin {NotFound, NotDecoded}
       /\ NotFound # NotDecoded]_vars

\* A dataset was loaded, the file then went missing and later held
\* something that is not JSON; both loads failed, the last one just now, and
\* the entries loaded first are still there.
C20_Witness ==
  /\ last_handler = "load"
  /\ json_file = Malformed
  /\ messagebox = <<NotDecoded>>
  /\ scanned_data_for_query # <<>>
  /\ Logged(0, "ERROR", "Error: not found.", 0) \in log_text
  /\ Logged(0, "ERROR", "Error: Could not decode JSON", 0) \in log_text

(***************************************************************************)
(* Bibliography extraction does not depend on the order of the set         *)
(***************************************************************************)

\* list(temp_biblio_set): the elements of the set, each once, in the order
\* the set happens to iterate in (it depends on the hashes of the strings
\* and on the order of insertion).
ListOrders(S) ==
  {l \in [1..Cardinality(S) -> S] : \A i, j \in 1..Cardinality(S) : i # j => l[i] # l[j]}

\* The list left as the set iterates.
KeepOrder(l) == l

\* Where sorted puts x in a sorted list of str.
InsertSorted(sorted, x) ==
  LET n == Cardinality({j \in 1..Len(sorted) : ~StrLess(x, sorted[j])})
  IN  SubSeq(sorted, 1, n) \o <<x>> \o SubSeq(sorted, n + 1, Len(sorted))

RECURSIVE SortListFrom(_, _, _)
SortListFrom(l, i, sorted) ==
  IF i > Len(l) THEN sorted
  ELSE SortListFrom(l, i + 1, InsertSorted(sorted, l[i]))

\* sorted(l) for a list of str (lines 483, 493, 534 and 560)
SortedList(l) == SortListFrom(l, 1, <<>>)

\* C21: extracting the references of an emitted entry's description again
\* yields the list the entry holds, whatever the order in which the
\* intermediate set hands out the matches.
C21_ReferencesIndependentOfSetOrder ==
  \A j \in 1..Len(entries_data) :
     /\ PySorted(BiblioSet(entries_data[j].description)) = entries_data[j].references_raw
     /\ \A l \in ListOrders(BiblioSet(entries_data[j].description)) :
           SortedList(l) = entries_data[j].references_raw

\* An emitted entry with two references, which the set can hand out in two
\* orders, one of them not the sorted one.
C21_Witness ==
  \E j \in 1..Len(entries_data) :
     /\ Len(entries_data[j].references_raw) = 2
     /\ Cardinality(ListOrders(BiblioSet(entries_data[j].description))) = 2
     /\ \E l \in ListOrders(BiblioSet(entries_data[j].description)) :
           l # entries_data[j].references_raw

(***************************************************************************)
(* C22: stored boxes are in page coordinates                               *)
(***************************************************************************)

\* A box of fractions multiplied by the zoom, coordinate by coordinate.
ScaleBox(box, zx, zy) ==
  <<Frac(box[1].num * zx, box[1].den), Frac(box[2].num * zy, box[2].den),
    Frac(box[3].num * zx, box[3].den), Frac(box[4].num * zy, box[4].den)>>

\* The corners <<x0, y0, x1, y1>> of a box of whole numbers, as fractions.
WholeBox(x0, y0, x1, y1) ==
  <<[num |-> x0, den |-> 1], [num |-> y0, den |-> 1],
    [num |-> x1, den |-> 1], [num |-> y1, den |-> 1]>>

\* The rows and characters of the page a metadata names.
MetaPage(m) == DocPage(PdfPath, m.page_number - 1, NoFault)

\* C22: a sigil metadata of the raster strategy stores, for a token of its
\* page with pixel box (left, top, width, height), the box (left/zx, top/zy,
\* (left+width)/zx, (top+height)/zy), and that box times the zoom is the
\* pixel box again; a metadata of the vector strategy stores the padded box
\* of a character of its page, in the page's own units; in both strategies
\* the stored box is the region of the page the image file was cropped from
\* and lies within the page.
C22_StoredBoxInPageCoordinates ==
  \A m \in SigilsOf(all_extracted_data) :
     LET box == m.bounding_box_pdf_coords
     IN  /\ m.extraction_method \in {"ocr", "direct"}
         /\ m.extraction_method = "ocr" =>
               \E i \in 1..Len(MetaPage(m).ocr_rows) :
                  LET row == MetaPage(m).ocr_rows[i]
                  IN  /\ Strip(row.text) = m.source_text
                      /\ box[1].num * ZoomX = row.left * box[1].den
                      /\ box[2].num * ZoomY = row.top * box[2].den
                      /\ box[3].num * ZoomX = (row.left + row.width) * box[3].den
                      /\ box[4].num * ZoomY = (row.top + row.height) * box[4].den
                      /\ ScaleBox(box, ZoomX, ZoomY)
                           = WholeBox(row.left, row.top,
                                      row.left + row.width, row.top + row.height)
         /\ m.extraction_method = "direct" =>
               \E i \in 1..Len(MetaPage(m).chars) :
                  LET c == MetaPage(m).chars[i]
                  IN  /\ c.text = m.source_text
                      /\ box = WholeBox(c.x0 - Padding, c.top - Padding,
                                        c.x1 + Padding, c.bottom + Padding)
         /\ m.image_path \in DOMAIN image_files
         /\ image_files[m.image_path].clip = box
         /\ ~FracLess(box[1], [num |-> 0, den |-> 1])
         /\ ~FracLess(box[2], [num |-> 0, den |-> 1])
         /\ ~FracLess([num |-> PageWidth, den |-> 1], box[3])
         /\ ~FracLess([num |-> PageHeight, den |-> 1], box[4])

\* The dataset holds a raster metadata whose page box has a coordinate that
\* is not a whole number (the "*" at pixel (21, 21), 5 by 4, stored as
\* (21/2, 21/2, 13, 25/2)).
C22_Witness ==
  \E m \in SigilsOf(all_extracted_data) :
     /\ m.extraction_method = "ocr"
     /\ m.bounding_box_pdf_coords
          = <<[num |-> 21, den |-> 2], [num |-> 21, den |-> 2],
              [num |-> 13, den |-> 1], [num |-> 25, den |-> 2]>>

(***************************************************************************)
(* One page extraction step by step: the line loop, then the glyph loop    *)
(* (specification GlyphSpec)                                               *)
(***************************************************************************)

\* Bound: the longest page of GlyphSpec, in lines.
MaxGlyphLines == 3

\* The height of the band of the page a line of text lies in.
LineBand == 240

\* A word as Tesseract reports it, before it is placed on a line.
Word(text, left, top, width, height) ==
  [text |-> text, left |-> left, top |-> top, width |-> width, height |-> height]

\* A character as pdfplumber reports it, before it is placed on a line.
Char(text, x0, top, x1, bottom) ==
  [text |-> text, x0 |-> x0, top |-> top, x1 |-> x1, bottom |-> bottom]

\* The heading lines of the pages: "AB Cd." and "E-F Gh.".
OcrHeadLines ==
  { <<Word(<<"A","B">>, 10, 20, 16, 10), Word(<<"C","d",".">>, 30, 20, 24, 10)>>,
    <<Word(<<"E","-","F">>, 10, 20, 24, 10), Word(<<"G","h",".">>, 38, 20, 24, 10)>> }

\* The texts of the one-word lines.
OcrTokenTexts ==
  { <<"*">>, <<"-">>, <<"/">>, <<"-","/">>, <<"_">>, <<"a">>, <<".">>, <<"?">>,
    <<"*","a">>, <<"*","*","*","*","*">>, <<"*","*","*","*","*","*">>, <<"E">>,
    <<" ">>, <<" ","+"," ">> }

\* A line of two words the engine reports in one and the same box.
OcrTwinLine == <<Word(<<"*">>, 21, 21, 5, 4), Word(<<"+">>, 21, 21, 5, 4)>>

\* The one-word lines: every text in a 5 by 4 pixel box, the "*" also in a
\* box without width; and the line of two words in one box.
OcrTokenLines ==
  {<<Word(t, 21, 21, 5, 4)>> : t \in OcrTokenTexts}
  \cup {<<Word(<<"*">>, 21, 21, 0, 4)>>, OcrTwinLine}

RECURSIVE OcrRowsFrom(_, _)
\* The rows of image_to_data for a page of lines of words: one block, the
\* lines numbered from 1, each LineBand pixels of the zoomed page below the
\* one before.
OcrRowsFrom(page_lines, k) ==
  IF k > Len(page_lines) THEN <<>>
  ELSE [j \in 1..Len(page_lines[k]) |->
          [block_num |-> 1, line_num |-> k, text |-> page_lines[k][j].text,
           left |-> page_lines[k][j].left,
           top |-> page_lines[k][j].top + ZoomY * LineBand * (k - 1),
           width |-> page_lines[k][j].width, height |-> page_lines[k][j].height]]
       \o OcrRowsFrom(page_lines, k + 1)

\* The heading lines of the vector pages, with the chars of each.
PlumberHeadLines ==
  { [text |-> <<"A","B"," ","C","d",".">>,
     chars |-> <<Char(<<"A">>, 10, 10, 16, 20), Char(<<"B">>, 16, 10, 22, 20),
                 Char(<<" ">>, 22, 10, 28, 20), Char(<<"C">>, 28, 10, 34, 20),
                 Char(<<"d">>, 34, 10, 40, 20), Char(<<".">>, 40, 10, 46, 20)>>],
    [text |-> <<"E","-","F"," ","G","h",".">>,
     chars |-> <<Char(<<"E">>, 10, 10, 16, 20), Char(<<"-">>, 16, 10, 22, 20),
                 Char(<<"F">>, 22, 10, 28, 20), Char(<<" ">>, 28, 10, 34, 20),
                 Char(<<"G">>, 34, 10, 40, 20), Char(<<"h">>, 40, 10, 46, 20),
                 Char(<<".">>, 46, 10, 52, 20)>>] }

\* The texts of the one-char lines; "**" is a char whose text has two
\* characters.
PlumberCharTexts ==
  { <<"*">>, <<"+">>, <<"-">>, <<"/">>, <<"_">>, <<"a">>, <<"7">>, <<".">>, <<"?">>,
    <<"*","*">>, <<" ">> }

\* The boxes of a "*" around the limits of line 547: at the left and top
\* edges of the page, at the right edge, at the bottom edge (when the line
\* is the third), half the page wide, 50 units high; the last one is 60
\* units high when padded.
PlumberEdgeBoxes ==
  { <<0, 10, 2, 12>>, <<1, 10, 3, 12>>, <<10, 0, 12, 2>>, <<10, 1, 12, 3>>,
    <<PageWidth - 3, 10, PageWidth - 1, 12>>, <<PageWidth - 2, 10, PageWidth, 12>>,
    <<10, PageHeight - 2 * LineBand - 3, 12, PageHeight - 2 * LineBand - 1>>,
    <<10, PageHeight - 2 * LineBand - 2, 12, PageHeight - 2 * LineBand>>,
    <<10, 10, 10 + (PageWidth \div 2) - 2 * Padding, 12>>,
    <<10, 10, 11 + (PageWidth \div 2) - 2 * Padding, 12>>,
    <<10, 10, 12, 10 + MaxGlyphHeight - 2 * Padding>>,
    <<10, 10, 12, 11 + MaxGlyphHeight - 2 * Padding>>,
    <<10, 10, 12, 68>> }

\* A line of two chars printed one over the other, in the same box.
PlumberTwinLine ==
  [text |-> <<"*", "+">>,
   chars |-> <<Char(<<"*">>, 10, 10, 12, 12), Char(<<"+">>, 10, 10, 12, 12)>>]

\* The one-char lines: every text in the box (10, 10, 12, 12), the "*" also
\* in the boxes at the limits; and the line of two chars in one box.
PlumberCharLines ==
  {[text |-> t, chars |-> <<Char(t, 10, 10, 12, 12)>>] : t \in PlumberCharTexts}
  \cup {PlumberTwinLine}
  \cup {[text |-> <<"*">>, chars |-> <<Char(<<"*">>, b[1], b[2], b[3], b[4])>>] :
          b \in PlumberEdgeBoxes}

RECURSIVE PlumberCharsFrom(_, _)
\* plumber_page.chars for a page of lines: the chars of line k lie in the
\* k-th band of the page.
PlumberCharsFrom(page_lines, k) ==
  IF k > Len(page_lines) THEN <<>>
  ELSE [j \in 1..Len(page_lines[k].chars) |->
          [text |-> page_lines[k].chars[j].text,
           x0 |-> page_lines[k].chars[j].x0,
           top |-> page_lines[k].chars[j].top + LineBand * (k - 1),
           x1 |-> page_lines[k].chars[j].x1,
           bottom |-> page_lines[k].chars[j].bottom + LineBand * (k - 1)]]
       \o PlumberCharsFrom(page_lines, k + 1)

\* The pages of GlyphSpec: up to MaxGlyphLines lines, each a heading line or
\* a line of one word or char.
OcrGlyphPages == SeqsUpTo(OcrHeadLines \cup OcrTokenLines, MaxGlyphLines)
PlumberGlyphPages == SeqsUpTo(PlumberHeadLines \cup PlumberCharLines, MaxGlyphLines)

\* The page objects the two functions are called with.
GlyphFitzPage == [doc |-> PdfPath, number |-> seg_number]
GlyphPlumberPage ==
  [page_number |-> seg_number + 1, width |-> PageWidth, height |-> PageHeight]

\* A page extraction is entered: the strategy, the page and what the engine
\* reads on it are chosen; the counter is 0 and no image has been written.
GlyphInit ==
  /\ AppIdle
  /\ seg_number \in 0..MaxPageIndex
  /\ \/ \E page_lines \in OcrGlyphPages :
           /\ seg_strategy = "ocr"
           /\ glyph_data = OcrRowsFrom(page_lines, 1)
           /\ lines_for_parsing = OcrLines(OcrRowsFrom(page_lines, 1))
     \/ \E page_lines \in PlumberGlyphPages :
           /\ seg_strategy = "direct"
           /\ glyph_data = PlumberCharsFrom(page_lines, 1)
           /\ lines_for_parsing = [k \in 1..Len(page_lines) |-> page_lines[k].text]
  /\ line_pos = 0
  /\ current_entry = None
  /\ entries_data = <<>>
  /\ seg_pc = "lines"
  /\ glyph_pos = 0

\* What a page extraction leaves alone of the application.
GlyphAppUnchanged ==
  UNCHANGED <<all_extracted_data, current_pdf_document_fitz, current_pdf_document_plumber,
              use_ocr_var, scan_start_page_idx, scan_end_page_idx, status_label,
              log_text, progress_value, root, tesseract_installed, doc_fault,
              json_file, open_handles, workers, queryVars>>

\* Raster strategy, lines 489-493: after the last line the open entry is
\* finalized and emitted; the glyph loop follows.
G_OcrEntries ==
  /\ seg_pc = "lines" /\ seg_strategy = "ocr"
  /\ line_pos = Len(lines_for_parsing)
  /\ LET st == OcrSegEnd(SegState)
     IN  /\ current_entry' = st.current_entry
         /\ entries_data' = st.entries_data
  /\ seg_pc' = "glyphs"
  /\ UNCHANGED <<seg_strategy, seg_number, lines_for_parsing, line_pos, glyph_data, glyph_pos,
                 sigil_counter, image_files, visual_elements>>
  /\ GlyphAppUnchanged

\* Raster strategy, lines 494-511: one row of ocr_data.
G_OcrToken ==
  /\ seg_pc = "glyphs" /\ seg_strategy = "ocr"
  /\ glyph_pos < Len(glyph_data)
  /\ LET g == OcrGlyphRow([entries_data |-> entries_data, sigil_counter |-> sigil_counter,
                           files |-> image_files, visual_elements |-> visual_elements],
                          glyph_data[glyph_pos + 1], GlyphFitzPage)
     IN  /\ entries_data' = g.entries_data
         /\ sigil_counter' = g.sigil_counter
         /\ image_files' = g.files
         /\ visual_elements' = g.visual_elements
  /\ glyph_pos' = glyph_pos + 1
  /\ UNCHANGED <<seg_strategy, seg_number, lines_for_parsing, line_pos, current_entry,
                 seg_pc, glyph_data>>
  /\ GlyphAppUnchanged

\* Raster strategy, line 513: the function returns.
G_OcrReturn ==
  /\ seg_pc = "glyphs" /\ seg_strategy = "ocr"
  /\ glyph_pos = Len(glyph_data)
  /\ seg_pc' = "done"
  /\ UNCHANGED <<seg_strategy, seg_number, lines_for_parsing, line_pos, current_entry,
                 entries_data, glyph_data, glyph_pos,
                 sigil_counter, image_files, visual_elements>>
  /\ GlyphAppUnchanged

\* Vector strategy, line 519: a page without text returns at once.
G_PlumberNoText ==
  /\ seg_pc = "lines" /\ seg_strategy = "direct"
  /\ lines_for_parsing = <<>>
  /\ seg_pc' = "done"
  /\ UNCHANGED <<seg_strategy, seg_number, lines_for_parsing, line_pos, current_entry,
                 entries_data, glyph_data, glyph_pos,
                 sigil_counter, image_files, visual_elements>>
  /\ GlyphAppUnchanged

\* Vector strategy, line 541: the line loop is over, the entry it left open
\* stays open; the glyph loop follows.
G_PlumberLinesDone ==
  /\ seg_pc = "lines" /\ seg_strategy = "direct"
  /\ lines_for_parsing # <<>>
  /\ line_pos = Len(lines_for_parsing)
  /\ seg_pc' = "glyphs"
  /\ UNCHANGED <<seg_strategy, seg_number, lines_for_parsing, line_pos, current_entry,
                 entries_data, glyph_data, glyph_pos,
                 sigil_counter, image_files, visual_elements>>
  /\ GlyphAppUnchanged

\* Vector strategy, lines 541-553: one char of the page.
G_PlumberChar ==
  /\ seg_pc = "glyphs" /\ seg_strategy = "direct"
  /\ glyph_pos < Len(glyph_data)
  /\ LET g == PlumberGlyphChar([current_entry |-> current_entry,
                                sigil_counter |-> sigil_counter,
                                files |-> image_files,
                                visual_elements |-> visual_elements],
                               glyph_data[glyph_pos + 1], GlyphPlumberPage, GlyphFitzPage)
     IN  /\ current_entry' = g.current_entry
         /\ sigil_counter' = g.sigil_counter
         /\ image_files' = g.files
         /\ visual_elements' = g.visual_elements
  /\ glyph_pos' = glyph_pos + 1
  /\ UNCHANGED <<seg_strategy, seg_number, lines_for_parsing, line_pos, entries_data,
                 seg_pc, glyph_data>>
  /\ GlyphAppUnchanged

\* Vector strategy, lines 556-565: after the glyph loop the open entry is
\* finalized and emitted, the annotations lose their duplicates and the
\* function returns.
G_PlumberEnd ==
  /\ seg_pc = "glyphs" /\ seg_strategy = "direct"
  /\ glyph_pos = Len(glyph_data)
  /\ LET st == PlumberSegEnd(SegState)
     IN  /\ current_entry' = st.current_entry
         /\ entries_data' = st.entries_data
  /\ visual_elements' = UniqueVisualElements(visual_elements, 1, <<>>)
  /\ seg_pc' = "done"
  /\ UNCHANGED <<seg_strategy, seg_number, lines_for_parsing, line_pos, glyph_data, glyph_pos,
                 sigil_counter, image_files>>
  /\ GlyphAppUnchanged

GlyphNext ==
  \/ Seg_OcrLine \/ G_OcrEntries \/ G_OcrToken \/ G_OcrReturn
  \/ Seg_PlumberLine \/ G_PlumberNoText \/ G_PlumberLinesDone \/ G_PlumberChar
  \/ G_PlumberEnd

GlyphSpec == GlyphInit /\ [][GlyphNext]_vars

(***************************************************************************)
(* C23: what changes of an entry after it was finalized                    *)
(***************************************************************************)

\* Entry j of entries_data is the same before and after the step, but for
\* its sigils list.
SameButSigils(j) ==
  /\ j <= Len(entries_data')
  /\ IsFinalEntry(entries_data[j]) /\ IsFinalEntry(entries_data'[j])
  /\ entries_data'[j].heading = entries_data[j].heading
  /\ entries_data'[j].class = entries_data[j].class
  /\ entries_data'[j].page_number = entries_data[j].page_number
  /\ entries_data'[j].description = entries_data[j].description
  /\ entries_data'[j].references_raw = entries_data[j].references_raw

\* The sigils list of entry j after the step starts with the list before it.
SigilsExtended(j) ==
  /\ Len(entries_data'[j].sigils_metadata) >= Len(entries_data[j].sigils_metadata)
  /\ SubSeq(entries_data'[j].sigils_metadata, 1, Len(entries_data[j].sigils_metadata))
       = entries_data[j].sigils_metadata

\* C23 as stated: no step of a page extraction changes any field of an entry
\* that was finalized before it, its sigils list included.
C23_FinalizedEntryFrozen ==
  [][\A j \in 1..Len(entries_data) :
        j <= Len(entries_data') /\ entries_data'[j] = entries_data[j]]_vars

\* C23, as the code has it: a step of a page extraction leaves the heading,
\* class, page number, description and references of every finalized entry
\* as they are and at most extends its sigils list; the list is extended
\* only by the glyph loop of the raster strategy, which runs after every
\* entry of the page was finalized, and only for the last entry of the
\* page; in the vector strategy a finalized entry does not change at all,
\* and the description parts and sigils of the open entry only grow until
\* it is finalized with them.
C23_FinalizedEntryKeepsAllButSigils ==
  [][/\ \A j \in 1..Len(entries_data) :
           /\ SameButSigils(j)
           /\ SigilsExtended(j)
           /\ entries_data'[j] # entries_data[j] =>
                 /\ seg_strategy = "ocr" /\ seg_pc = "glyphs"
                 /\ j = Len(entries_data)
                 /\ Len(entries_data'[j].sigils_metadata)
                      = Len(entries_data[j].sigils_metadata) + 1
     /\ (current_entry # None /\ current_entry' # None
           /\ Len(entries_data') = Len(entries_data)) =>
           /\ current_entry'.heading = current_entry.heading
           /\ Len(current_entry'.description_parts) >= Len(current_entry.description_parts)
           /\ SubSeq(current_entry'.description_parts, 1,
                     Len(current_entry.description_parts))
                = current_entry.description_parts
           /\ Len(current_entry'.sigils_metadata) >= Len(current_entry.sigils_metadata)
           /\ SubSeq(current_entry'.sigils_metadata, 1,
                     Len(current_entry.sigils_metadata))
                = current_entry.sigils_metadata
     /\ (current_entry # None /\ Len(entries_data') = Len(entries_data) + 1) =>
           /\ entries_data'[Len(entries_data')].heading = current_entry.heading
           /\ entries_data'[Len(entries_data')].sigils_metadata
                = current_entry.sigils_metadata]_vars

\* A raster extraction returned two entries: the first, finalized at the
\* second heading line, has no sigil, and the last, finalized at the end of
\* the lines, was given one by the glyph loop afterwards.
C23_Witness ==
  /\ seg_strategy = "ocr" /\ seg_pc = "done"
  /\ Len(entries_data) = 2
  /\ entries_data[1].sigils_metadata = <<>>
  /\ Len(entries_data[2].sigils_metadata) = 1

(***************************************************************************)
(* C24: the entry a glyph is attached to and the glyph's place on the page *)
(***************************************************************************)

\* The line of the page a stored box lies on: the band the top of the glyph
\* is in (the stored box of the vector strategy is padded).
GlyphLine(m) ==
  LET y0 == m.bounding_box_pdf_coords[2].num \div m.bounding_box_pdf_coords[2].den
  IN  (IF m.extraction_method = "direct" THEN y0 + Padding ELSE y0) \div LineBand + 1

\* How many of the first n lines of the page are heading lines.
HeadingLineCount(n) ==
  Cardinality({i \in 1..n : HeadingMatch(Strip(lines_for_parsing[i])).matched})

\* The entries of the page in the order of their heading lines: the emitted
\* ones, then the open one.
PageEntries ==
  IF current_entry # None /\ (seg_pc = "lines" \/ (seg_strategy = "direct" /\ seg_pc = "glyphs"))
  THEN Append(entries_data, current_entry)
  ELSE entries_data

\* C24: every attached glyph that has a heading line before it on the page
\* lies after the heading line of the entry it is attached to and before
\* the next heading line of the page: the entry is the one whose heading
\* line is the latest one preceding the glyph.
C24_GlyphAttachedToLatestHeading ==
  \A j \in 1..Len(PageEntries) :
     \A k \in 1..Len(PageEntries[j].sigils_metadata) :
        HeadingLineCount(GlyphLine(PageEntries[j].sigils_metadata[k])) \in {0, j}

(***************************************************************************)
(* C25: the entry a detected glyph is attached to                          *)
(***************************************************************************)

\* The page box line 498 computes for a row.
OcrPageBox(row) ==
  <<Frac(row.left, ZoomX), Frac(row.top, ZoomY),
    Frac(row.left + row.width, ZoomX), Frac(row.top + row.height, ZoomY)>>

\* The step examined a row of ocr_data or a char of the page.
GlyphStep == seg_pc = "glyphs" /\ glyph_pos' = glyph_pos + 1

\* The entry is as before the step but for one metadata appended to its
\* sigils list: of an image file the step wrote, with the entry's heading
\* and the number of the page.
OneSigilAppended(before, after) ==
  /\ Len(after.sigils_metadata) = Len(before.sigils_metadata) + 1
  /\ after = [before EXCEPT !.sigils_metadata =
                Append(@, after.sigils_metadata[Len(after.sigils_metadata)])]
  /\ LET m == after.sigils_metadata[Len(after.sigils_metadata)]
     IN  /\ m.image_path \in DOMAIN image_files' \ DOMAIN image_files
         /\ m.parent_entry_heading = before.heading
         /\ m.page_number = seg_number + 1
         /\ before.page_number = seg_number + 1

\* The step wrote no image file and made no metadata.
NothingSaved ==
  /\ image_files' = image_files
  /\ entries_data' = entries_data
  /\ current_entry' = current_entry

\* The annotation the step appended, if any.
NewAnnotations ==
  {visual_elements'[k].type : k \in Len(visual_elements) + 1..Len(visual_elements')}

\* C25: in the vector strategy a step of the glyph loop saves and attaches
\* to the open entry only, and with no open entry (the page has no heading
\* line) it saves nothing; in the raster strategy, where every entry of the
\* page is finalized before the glyph loop, it attaches to the last entry
\* emitted for the page, and with no entry it saves nothing.  A step writes
\* an image file exactly when it attaches a metadata, and a detected glyph
\* that is not attached although the page has an entry is one whose crop
\* could not be saved.
C25_GlyphAttachedToOpenOrLastEntry ==
  [][GlyphStep =>
       /\ seg_strategy = "direct" =>
             /\ entries_data' = entries_data
             /\ current_entry = None => NothingSaved /\ visual_elements' = visual_elements
             /\ current_entry # None =>
                   \/ NothingSaved
                   \/ /\ OneSigilAppended(current_entry, current_entry')
                      /\ NewAnnotations = {"saved_sigil"}
       /\ seg_strategy = "ocr" =>
             /\ current_entry' = current_entry
             /\ entries_data = <<>> => NothingSaved /\ "saved_sigil" \notin NewAnnotations
             /\ entries_data # <<>> =>
                   \/ NothingSaved
                   \/ /\ OneSigilAppended(entries_data[Len(entries_data)],
                                          entries_data'[Len(entries_data)])
                      /\ SubSeq(entries_data', 1, Len(entries_data) - 1)
                           = SubSeq(entries_data, 1, Len(entries_data) - 1)
                      /\ Len(entries_data') = Len(entries_data)
                      /\ NewAnnotations = {"saved_sigil"}
             /\ (NewAnnotations = {"potential_symbol"} /\ entries_data # <<>>) =>
                   CropIsEmpty(OcrPageBox(glyph_data[glyph_pos + 1]))
       /\ NothingSaved <=> "saved_sigil" \notin NewAnnotations]_vars

\* The glyph loop of the raster strategy is at work on a page of two
\* entries and has saved a glyph: the metadata is in the second entry.
C25_Witness ==
  /\ seg_strategy = "ocr" /\ seg_pc = "glyphs"
  /\ Len(entries_data) = 2
  /\ entries_data[1].sigils_metadata = <<>>
  /\ entries_data[2].sigils_metadata # <<>>
  /\ DOMAIN image_files # {}

\* A detected glyph was dropped: the page has no entry, the token is
\* annotated as a potential symbol and nothing was saved.
C25_DroppedWitness ==
  /\ seg_strategy = "ocr" /\ seg_pc = "done"
  /\ entries_data = <<>>
  /\ \E k \in 1..Len(visual_elements) : visual_elements[k].type = "potential_symbol"
  /\ DOMAIN image_files = {} /\ sigil_counter = 0

(***************************************************************************)
(* C26: entries do not span pages                                          *)
(***************************************************************************)

\* The indices of the heading lines of a page's lines.
HeadingLinesOf(lines) ==
  {i \in 1..Len(lines) : Strip(lines[i]) # <<>> /\ HeadingMatch(Strip(lines[i])).matched}

RECURSIVE TextBetween(_, _, _)
\* The non-empty trimmed lines lo..hi of a page's lines.
TextBetween(lines, lo, hi) ==
  IF lo > hi THEN <<>>
  ELSE (IF Strip(lines[lo]) # <<>> THEN <<Strip(lines[lo])>> ELSE <<>>)
         \o TextBetween(lines, lo + 1, hi)

\* The description of the entry whose heading line is line i of the page:
\* what follows the class on line i, then the lines up to the next heading
\* line or the end of the page.
PageDescription(lines, i) ==
  LET hm == HeadingMatch(Strip(lines[i]))
      rest == Strip(SubSeq(Strip(lines[i]), hm.end + 1, Len(Strip(lines[i]))))
      later == {h \in HeadingLinesOf(lines) : h > i}
      hi == IF later = {} THEN Len(lines)
            ELSE (CHOOSE h \in later : \A g \in later : h <= g) - 1
  IN  Strip(Join((IF rest # <<>> THEN <<rest>> ELSE <<>>) \o TextBetween(lines, i + 1, hi)))

\* The 1-based number of the page the step extracted.
ExtractedPage ==
  workers[CHOOSE w \in Threads : workers'[w].processed # workers[w].processed].page_idx + 1

\* C26: a page's extraction appends one finalized entry for each heading line
\* of the page, the one still open at the end of the page included, each
\* with the page's 1-based number and with a description made of lines of
\* that page only: of the lines from its heading line to the next heading
\* line or the end of the page.  A line before the first heading line of the
\* page goes to no entry, whatever the page before ended with.  Only a page
\* whose OCR failed appends nothing.
C26_EntriesStayWithinTheirPage ==
  [][PageExtracted =>
       \A n \in {ExtractedPage} : \A lines \in {PageLines(n)} :
          \/ /\ AppendedEntries = <<>>
             /\ use_ocr_var
             /\ ~tesseract_installed \/ (doc_fault.idx = n - 1 /\ doc_fault.kind = "ocr")
          \/ /\ Len(AppendedEntries) = Cardinality(HeadingLinesOf(lines))
             /\ \A i \in HeadingLinesOf(lines) :
                   \A k \in {Cardinality({h \in HeadingLinesOf(lines) : h <= i})} :
                      \A hm \in {HeadingMatch(Strip(lines[i]))} :
                         /\ IsFinalEntry(AppendedEntries[k])
                         /\ AppendedEntries[k].page_number = n
                         /\ AppendedEntries[k].heading = Strip(hm.group1)
                         /\ AppendedEntries[k].class = Strip(hm.group2)
                         /\ AppendedEntries[k].description = PageDescription(lines, i)]_vars

\* The second page was extracted after the first: the dataset ends with the
\* entry "Q1" of page 1, described by "y" alone, and the entry "E-F" of
\* page 2; the line "w" that starts page 2 is in neither.
C26_Witness ==
  /\ Len(all_extracted_data) >= 2
  /\ LET q == all_extracted_data[Len(all_extracted_data) - 1]
         e == all_extracted_data[Len(all_extracted_data)]
     IN  /\ q.heading = <<"Q","1">> /\ q.page_number = 1 /\ q.description = <<"y">>
         /\ e.heading = <<"E","-","F">> /\ e.page_number = 2
         /\ e.description = <<"z"," ","/">>

(***************************************************************************)
(* C27: lines before the first heading line of the page                    *)
(***************************************************************************)

\* The line the step consumes is not a heading line.
NonHeadingLineStep ==
  /\ seg_pc = "lines" /\ line_pos' = line_pos + 1
  /\ ~HeadingMatch(Strip(lines_for_parsing[line_pos + 1])).matched

\* C27: a step that consumes a non-heading line while no entry is open
\* leaves the segmenter without an open entry and emits nothing; and when
\* the page is done there is one entry for each heading line, described by
\* the lines from its heading line on: the lines before the first heading
\* line are in no description.
C27_LineBeforeFirstHeadingDropped ==
  [][/\ (NonHeadingLineStep /\ current_entry = None) =>
           current_entry' = None /\ entries_data' = entries_data
     /\ (seg_pc = "lines" /\ seg_pc' = "done") =>
           /\ Len(entries_data') = Cardinality(HeadingLinesOf(lines_for_parsing))
           /\ \A i \in HeadingLinesOf(lines_for_parsing) :
                 \A k \in {Cardinality({h \in HeadingLinesOf(lines_for_parsing) : h <= i})} :
                    entries_data'[k].description = PageDescription(lines_for_parsing, i)]_vars

\* The page is done; it starts with a non-empty line that is not a heading
\* line and has a heading line further down, whose entry was emitted.
C27_Witness ==
  /\ seg_pc = "done"
  /\ Len(lines_for_parsing) >= 2
  /\ Strip(lines_for_parsing[1]) # <<>>
  /\ 1 \notin HeadingLinesOf(lines_for_parsing)
  /\ HeadingLinesOf(lines_for_parsing) # {}
  /\ entries_data # <<>>

(***************************************************************************)
(* C28: the glyph candidates of the vector strategy                        *)
(***************************************************************************)

\* The step examines a char of the page while an entry is open, and the
\* char's box, padded by one unit, is inside the page and not too large.
PlumberCharStepInEntry ==
  /\ seg_strategy = "direct" /\ GlyphStep
  /\ current_entry # None
  /\ \A c \in {glyph_data[glyph_pos + 1]} :
        /\ c.x0 - 1 >= 0 /\ c.top - 1 >= 0
        /\ c.x1 + 1 <= PageWidth /\ c.bottom + 1 <= PageHeight
        /\ 2 * (c.x1 - c.x0 + 2) <= PageWidth
        /\ c.bottom - c.top + 2 <= 50

\* The step tried to save a crop: the counter went up by one.
SaveAttempted == sigil_counter' = sigil_counter + 1

\* text is a single character that is not alphanumeric, not whitespace and
\* not in the set punctuation.
SingleSymbolOutside(text, punctuation) ==
  /\ Len(text) = 1
  /\ text[1] \notin Upper \cup Lower \cup Digit
  /\ text[1] \notin {" "}
  /\ text[1] \notin punctuation

\* C28 as stated: with an entry open and an acceptable box, a crop is saved
\* for a char exactly when its text is a single character that is not
\* alphanumeric, not whitespace and none of . , ; : ( ) ' " [ ] ! ? (hyphen
\* and slash are candidates).
C28_CandidateUnlessListedPunctuation ==
  [][PlumberCharStepInEntry =>
       (SaveAttempted <=>
          SingleSymbolOutside(glyph_data[glyph_pos + 1].text,
                              {".", ",", ";", ":", "(", ")", "'", "\"", "[", "]", "!", "?"}))]_vars

\* C28, as the code has it: with an entry open and an acceptable box, a crop
\* is saved for a char exactly when its text is a single character that is
\* not alphanumeric, not whitespace and none of . , ; : ( ) ' " [ ] ! ? - /
\* (hyphen and slash are not candidates, the underscore is); for any other
\* char nothing is saved, attached or annotated.
C28_CandidateUnlessCommonPunctuation ==
  [][PlumberCharStepInEntry =>
       /\ SaveAttempted <=>
             SingleSymbolOutside(glyph_data[glyph_pos + 1].text,
                                 {".", ",", ";", ":", "(", ")", "'", "\"", "[", "]", "!", "?",
                                  "-", "/"})
       /\ ~SaveAttempted =>
             NothingSaved /\ sigil_counter' = sigil_counter
                          /\ visual_elements' = visual_elements]_vars

\* The glyph loop of the vector strategy went over a hyphen and an
\* underscore with an entry open: only the underscore was saved.
C28_Witness ==
  /\ seg_strategy = "direct" /\ seg_pc = "glyphs"
  /\ current_entry # None
  /\ \E i, j \in 1..glyph_pos :
        /\ glyph_data[i].text = <<"-">>
        /\ glyph_data[j].text = <<"_">>
  /\ sigil_counter = 1
  /\ Len(current_entry.sigils_metadata) = 1
  /\ current_entry.sigils_metadata[1].source_text = <<"_">>

(***************************************************************************)
(* C29: the glyph candidates of the raster strategy                        *)
(***************************************************************************)

\* The step examines a row of ocr_data while the page has an entry.
OcrTokenStepWithEntry ==
  /\ seg_strategy = "ocr" /\ GlyphStep
  /\ entries_data # <<>>

\* text is 1 to 5 characters long and has no character of the set excluded.
ShortAndOutside(text, excluded) ==
  /\ Len(text) \in 1..5
  /\ \A i \in 1..Len(text) : text[i] \notin excluded

\* C29 as stated: on a page with an entry a crop-and-save is attempted for a
\* token exactly when its trimmed text is 1 to 5 characters long and has no
\* alphanumeric character, no whitespace and none of . , ; : ( ) ' " [ ] ! ?
C29_CandidateIffShortSymbolText ==
  [][OcrTokenStepWithEntry =>
       (SaveAttempted <=>
          ShortAndOutside(Strip(glyph_data[glyph_pos + 1].text),
                          Upper \cup Lower \cup Digit \cup {" "}
                            \cup {".", ",", ";", ":", "(", ")", "'", "\"", "[", "]", "!", "?"}))]_vars

\* C29, as the code has it: on a page with an entry a crop-and-save is
\* attempted for a token exactly when its trimmed text is not part of the
\* heading of an entry of the page and is 1 to 5 characters long with no
\* letter, digit or underscore, no whitespace and none of
\* . , ; : ( ) ' " [ ] ! ? ; a token of hyphens or slashes is a candidate
\* unless a heading of the page contains it.  A token that is not a
\* candidate is annotated and nothing is saved for it.
C29_CandidateIffSymbolTextOutsideHeadings ==
  [][OcrTokenStepWithEntry =>
       \A text \in {Strip(glyph_data[glyph_pos + 1].text)} :
          /\ SaveAttempted <=>
                /\ \A j \in 1..Len(entries_data) : ~IsSubstring(text, entries_data[j].heading)
                /\ ShortAndOutside(text,
                                   Upper \cup Lower \cup Digit \cup {"_", " "}
                                     \cup {".", ",", ";", ":", "(", ")", "'", "\"",
                                           "[", "]", "!", "?"})
          /\ ~SaveAttempted =>
                /\ NothingSaved
                /\ "saved_sigil" \notin NewAnnotations
                /\ "potential_symbol" \notin NewAnnotations]_vars

\* The glyph loop of the raster strategy went over a hyphen and a slash on a
\* page whose heading is "E-F": the hyphen is annotated as a heading word,
\* the slash was saved.
C29_Witness ==
  /\ seg_strategy = "ocr" /\ seg_pc = "glyphs"
  /\ Len(entries_data) = 1 /\ entries_data[1].heading = <<"E","-","F">>
  /\ \E i, j \in 1..Len(visual_elements) :
        /\ visual_elements[i].text_snippet = <<"-">> /\ visual_elements[i].type = "heading"
        /\ visual_elements[j].text_snippet = <<"/">> /\ visual_elements[j].type = "saved_sigil"
  /\ sigil_counter = 1

(***************************************************************************)
(* C30: the box of a vector candidate                                      *)
(***************************************************************************)

\* The step examines a char that is a candidate by its text, while an entry
\* is open.
PlumberCandidateStep ==
  /\ seg_strategy = "direct" /\ GlyphStep
  /\ current_entry # None
  /\ SingleSymbolOutside(glyph_data[glyph_pos + 1].text,
                         {".", ",", ";", ":", "(", ")", "'", "\"", "[", "]", "!", "?",
                          "-", "/"})

\* The box <<x0, y0, x1, y1>> lies inside a page of the given size, is at
\* most half as wide as the page and at most 50 high.
BoxAcceptable(x0, y0, x1, y1, width, height) ==
  /\ x0 >= 0 /\ y0 >= 0
  /\ x1 <= width /\ y1 <= height
  /\ 2 * (x1 - x0) <= width
  /\ y1 - y0 <= 50

\* C30: a candidate char is accepted (its crop is saved and a metadata is
\* attached) exactly when its box padded by 1 unit on each side has
\* x0 >= 0, y0 >= 0, x1 <= page width, y1 <= page height, width <= half the
\* page width and height <= 50; the metadata and the image file hold the
\* padded box; a rejected candidate leaves no file, metadata or annotation.
C30_PaddedBoxAcceptedAndStored ==
  [][PlumberCandidateStep =>
       \A c \in {glyph_data[glyph_pos + 1]} :
          /\ SaveAttempted <=>
                BoxAcceptable(c.x0 - 1, c.top - 1, c.x1 + 1, c.bottom + 1,
                              PageWidth, PageHeight)
          /\ SaveAttempted =>
                /\ OneSigilAppended(current_entry, current_entry')
                /\ \A m \in {current_entry'.sigils_metadata[
                               Len(current_entry'.sigils_metadata)]} :
                      /\ m.bounding_box_pdf_coords
                           = WholeBox(c.x0 - 1, c.top - 1, c.x1 + 1, c.bottom + 1)
                      /\ image_files'[m.image_path].clip = m.bounding_box_pdf_coords
                      /\ m.source_text = c.text
          /\ ~SaveAttempted =>
                NothingSaved /\ visual_elements' = visual_elements]_vars

\* The char "*" with the box (10, 10, 12, 12) on the 500 by 700 page was
\* accepted: the open entry holds it with the box (9, 9, 13, 13).
C30_Witness ==
  /\ seg_strategy = "direct" /\ seg_pc = "glyphs"
  /\ PageWidth = 500 /\ PageHeight = 700
  /\ current_entry # None
  /\ \E i \in 1..glyph_pos :
        glyph_data[i] = Char(<<"*">>, 10, 10, 12, 12)
  /\ \E k \in 1..Len(current_entry.sigils_metadata) :
        /\ current_entry.sigils_metadata[k].source_text = <<"*">>
        /\ current_entry.sigils_metadata[k].bounding_box_pdf_coords = WholeBox(9, 9, 13, 13)

\* Candidates were rejected for their size: the glyph loop went over a "*"
\* that is 51 high when padded and one that is 251 wide when padded, with an
\* entry open, and nothing was saved or annotated.
C30_RejectedWitness ==
  /\ seg_strategy = "direct" /\ seg_pc = "glyphs" /\ glyph_pos = Len(glyph_data)
  /\ current_entry # None
  /\ \E j, k \in 1..glyph_pos :
        /\ glyph_data[j].text = <<"*">> /\ glyph_data[j].bottom - glyph_data[j].top = 49
        /\ glyph_data[k].text = <<"*">> /\ glyph_data[k].x1 - glyph_data[k].x0 = 249
  /\ sigil_counter = 0 /\ visual_elements = <<>>

(***************************************************************************)
(* C31: a vector candidate rejected for its size or place                  *)
(***************************************************************************)

\* The step examines a candidate char whose padded box fails the test of
\* line 547.
PlumberRejectedStep ==
  /\ PlumberCandidateStep
  /\ \E c \in {glyph_data[glyph_pos + 1]} :
        ~BoxAcceptable(c.x0 - 1, c.top - 1, c.x1 + 1, c.bottom + 1, PageWidth, PageHeight)

\* C31: the rejection of a vector candidate by the test on its padded box
\* changes nothing: no image file is written, the sigil counter is not
\* advanced, no metadata is made, the sigils list of the open entry and the
\* entries emitted so far are as before, and no annotation is added.
C31_RejectedCandidateChangesNothing ==
  [][PlumberRejectedStep =>
       /\ image_files' = image_files
       /\ sigil_counter' = sigil_counter
       /\ current_entry'.sigils_metadata = current_entry.sigils_metadata
       /\ current_entry' = current_entry
       /\ entries_data' = entries_data
       /\ visual_elements' = visual_elements]_vars

\* The glyph loop went over a "*" whose padded box is 60 units high while an
\* entry was open, after it had saved a "*" of the box (10, 10, 12, 12): one
\* file, one metadata, the counter at 1.
C31_Witness ==
  /\ seg_strategy = "direct" /\ seg_pc = "glyphs" /\ glyph_pos = Len(glyph_data)
  /\ current_entry # None
  /\ \E i, j \in 1..glyph_pos :
        /\ i < j
        /\ glyph_data[i] = Char(<<"*">>, 10, 10 + LineBand, 12, 12 + LineBand)
        /\ glyph_data[j].text = <<"*">>
        /\ (glyph_data[j].bottom + 1) - (glyph_data[j].top - 1) = 60
  /\ sigil_counter = 1
  /\ Len(current_entry.sigils_metadata) = 1
  /\ Cardinality(DOMAIN image_files) = 1
  /\ Cardinality({k \in 1..Len(visual_elements) : visual_elements[k].type = "saved_sigil"}) = 1

(***************************************************************************)
(* C32: annotations with the same box                                      *)
(***************************************************************************)

\* No two records of the list have the same rect.
RectsDistinct(ves) ==
  \A i, j \in 1..Len(ves) : ves[i].rect = ves[j].rect => i = j

\* C32: the annotations a page extraction returns, by either strategy, hold
\* no two records with the same bounding-box tuple.
C32_ReturnedAnnotationsHaveDistinctBoxes ==
  seg_pc = "done" => RectsDistinct(visual_elements)

\* The part of C32 on the vector strategy: the annotations returned hold no
\* two records with the same box.
C32_VectorAnnotationsDistinct ==
  (seg_pc = "done" /\ seg_strategy = "direct") => RectsDistinct(visual_elements)

\* The part of C32 on what is kept, vector strategy: the return (lines
\* 561-565) keeps of the records with the same box the first one produced,
\* in the order produced, and removes no metadata and no image file.
C32_VectorFirstKeptMetadataKept ==
  [][(seg_pc = "glyphs" /\ seg_pc' = "done" /\ seg_strategy = "direct") =>
       /\ \A k \in 1..Len(visual_elements) :
             (\A j \in 1..(k - 1) : visual_elements[j].rect # visual_elements[k].rect)
             <=> (\E i \in 1..Len(visual_elements') : visual_elements'[i] = visual_elements[k])
       /\ \A i, j \in 1..Len(visual_elements') :
             i < j => \E a, b \in 1..Len(visual_elements) :
                         /\ a < b
                         /\ visual_elements[a] = visual_elements'[i]
                         /\ visual_elements[b] = visual_elements'[j]
       /\ image_files' = image_files
       /\ current_entry # None =>
             /\ Len(entries_data') = Len(entries_data) + 1
             /\ entries_data'[Len(entries_data')].sigils_metadata
                  = current_entry.sigils_metadata]_vars

\* The vector strategy returned for a page with two chars in one box: one
\* annotation, of the first char, and the entry holds two metadata with the
\* same box, each with its own image file.
C32_VectorTwinWitness ==
  /\ seg_pc = "done" /\ seg_strategy = "direct"
  /\ Len(visual_elements) = 1 /\ visual_elements[1].text_snippet = <<"*">>
  /\ Len(entries_data) = 1
  /\ \E ms \in {entries_data[1].sigils_metadata} :
        /\ Len(ms) = 2
        /\ ms[1].bounding_box_pdf_coords = ms[2].bounding_box_pdf_coords
        /\ ms[1].image_path # ms[2].image_path
        /\ {ms[1].image_path, ms[2].image_path} \subseteq DOMAIN image_files

(***************************************************************************)
(* Line reconstruction of one page, then its line loop                     *)
(* (specification LineSpec)                                                *)
(***************************************************************************)

\* Bound: the longest token stream of LineSpec, in rows.
MaxRows == 3

\* The texts of the tokens: words, a token of whitespace only, a token with
\* whitespace around its text.
RowTexts == { <<"A","B">>, <<"C","d",".">>, <<"x">>, <<" ">>, <<" ","y"," ">> }

\* The (block_num, line_num) keys of the tokens.
RowKeys == { <<1, 1>>, <<1, 2>>, <<2, 1>> }

\* The rows of image_to_data a token stream is drawn from.
OcrRows ==
  {[block_num |-> k[1], line_num |-> k[2], text |-> t,
    left |-> 21, top |-> 21, width |-> 5, height |-> 4] : k \in RowKeys, t \in RowTexts}

\* The token streams and the text layers of LineSpec.
OcrRowStreams == SeqsUpTo(OcrRows, MaxRows)
PlumberTextLines == SeqsUpTo({LineHeadText, LineBlank, LineUpperOnly}, 2)

\* A page extraction is entered: the raster strategy has the rows of the
\* engine and no line yet, the vector strategy the lines of the text layer.
LineInit ==
  /\ AppIdle
  /\ seg_number \in 0..MaxPageIndex
  /\ \/ /\ seg_strategy = "ocr"
        /\ glyph_data \in OcrRowStreams
        /\ lines_for_parsing = <<>>
        /\ seg_pc = "rows"
     \/ /\ seg_strategy = "direct"
        /\ glyph_data = <<>>
        /\ lines_for_parsing \in PlumberTextLines
        /\ seg_pc = "lines"
  /\ line_pos = 0
  /\ current_entry = None
  /\ entries_data = <<>>
  /\ glyph_pos = 0

\* Raster strategy, lines 466-473: the rows are grouped into lines.
L_OcrLines ==
  /\ seg_pc = "rows" /\ seg_strategy = "ocr"
  /\ lines_for_parsing' = OcrLines(glyph_data)
  /\ seg_pc' = "lines"
  /\ UNCHANGED <<seg_strategy, seg_number, line_pos, current_entry, entries_data,
                 glyph_data, glyph_pos, appVars, queryVars>>

LineNext ==
  L_OcrLines \/ Seg_OcrLine \/ Seg_OcrEnd \/ Seg_PlumberLine \/ Seg_PlumberEnd

LineSpec == LineInit /\ [][LineNext]_vars

(***************************************************************************)
(* C33: the lines made of a token stream                                   *)
(***************************************************************************)

\* The grouping key of row i.
RowKey(rows, i) == <<rows[i].block_num, rows[i].line_num>>

\* The rows a run begins at: the first row and every row whose key differs
\* from the key of the row before it.
RunStarts(rows) ==
  {i \in 1..Len(rows) : i = 1 \/ RowKey(rows, i) # RowKey(rows, i - 1)}

\* The k-th run start, and the last row of the run that begins there.
NthStart(rows, k) ==
  CHOOSE i \in RunStarts(rows) : Cardinality({s \in RunStarts(rows) : s <= i}) = k
RunLast(rows, i) ==
  CHOOSE j \in i..Len(rows) :
     /\ \A r \in i..j : r \notin RunStarts(rows) \ {i}
     /\ j = Len(rows) \/ j + 1 \in RunStarts(rows)

\* The trimmed texts of rows i..j, joined with single spaces.
RunText(rows, i, j) == Join([r \in 1..(j - i + 1) |-> Strip(rows[i + r - 1].text)])

\* The step takes a line that is empty after trimming.
BlankLineStep ==
  /\ seg_pc = "lines" /\ line_pos' = line_pos + 1
  /\ \A c \in 1..Len(lines_for_parsing[line_pos + 1]) :
        lines_for_parsing[line_pos + 1][c] = " "

\* C33: the lines reconstructed from a token stream are, in stream order,
\* the maximal runs of consecutive rows with equal (block_num, line_num):
\* one line per run, the k-th line the single-space join of the trimmed
\* texts of the rows of the k-th run in stream order, so that every row is
\* in exactly one line; and a line that is empty after trimming leaves the
\* entry segmenter as it was, in either strategy.
C33_LinesAreMaximalRunsOfEqualKey ==
  /\ []((seg_strategy = "ocr" /\ seg_pc # "rows") =>
          /\ Len(lines_for_parsing) = Cardinality(RunStarts(glyph_data))
          /\ \A k \in 1..Len(lines_for_parsing) :
                lines_for_parsing[k]
                  = RunText(glyph_data, NthStart(glyph_data, k),
                            RunLast(glyph_data, NthStart(glyph_data, k))))
  /\ [][BlankLineStep =>
          /\ current_entry' = current_entry
          /\ entries_data' = entries_data]_vars

\* The stream "AB" (1,1), "Cd." (1,1), "x" (2,1) gave the lines "AB Cd."
\* and "x", and both were segmented: one entry with the description "x".
C33_Witness ==
  /\ seg_strategy = "ocr" /\ seg_pc = "done"
  /\ Len(glyph_data) = 3
  /\ RowKey(glyph_data, 1) = <<1, 1>> /\ RowKey(glyph_data, 2) = <<1, 1>>
  /\ RowKey(glyph_data, 3) = <<2, 1>>
  /\ lines_for_parsing = << <<"A","B"," ","C","d",".">>, <<"x">> >>
  /\ Len(entries_data) = 1
  /\ entries_data[1].description = <<"x">>

\* A line of whitespace tokens was passed over: the stream "AB" (1,1),
\* "Cd." (1,1), " " (1,2) gave the lines "AB Cd." and "", and the entry has
\* an empty description.
C33_BlankWitness ==
  /\ seg_strategy = "ocr" /\ seg_pc = "done"
  /\ lines_for_parsing = << <<"A","B"," ","C","d",".">>, <<>> >>
  /\ Len(entries_data) = 1
  /\ entries_data[1].description = <<>>

(***************************************************************************)
(* C34: what a metadata says of its entry                                  *)
(***************************************************************************)

\* Every metadata of the entry names the entry's heading and page.
SigilsNameTheirEntry(e) ==
  \A k \in 1..Len(e.sigils_metadata) :
     /\ e.sigils_metadata[k].parent_entry_heading = e.heading
     /\ e.sigils_metadata[k].page_number = e.page_number

\* C34: for every entry of a page, open or emitted, and every metadata in
\* its sigils list: parent_entry_heading is the entry's heading,
\* page_number is the entry's page_number, and extraction_method is "ocr"
\* when the page is processed by the raster strategy and "direct" when it
\* is processed by the vector strategy.
C34_SigilNamesEntryPageAndStrategy ==
  \A j \in 1..Len(PageEntries) :
     /\ SigilsNameTheirEntry(PageEntries[j])
     /\ \A k \in 1..Len(PageEntries[j].sigils_metadata) :
           PageEntries[j].sigils_metadata[k].extraction_method = seg_strategy

\* Both strategies returned entries with a metadata: seen from the raster
\* strategy here, an entry of page 2 with a metadata of method "ocr".
C34_Witness ==
  /\ seg_pc = "done" /\ seg_strategy = "ocr" /\ seg_number = 1
  /\ \E j \in 1..Len(entries_data) :
        /\ entries_data[j].page_number = 2
        /\ Len(entries_data[j].sigils_metadata) >= 1
        /\ entries_data[j].sigils_metadata[1].extraction_method = "ocr"
        /\ entries_data[j].sigils_metadata[1].page_number = 2

\* The vector strategy returned an entry of page 2 with a metadata of
\* method "direct".
C34_DirectWitness ==
  /\ seg_pc = "done" /\ seg_strategy = "direct" /\ seg_number = 1
  /\ \E j \in 1..Len(entries_data) :
        /\ entries_data[j].page_number = 2
        /\ Len(entries_data[j].sigils_metadata) >= 1
        /\ entries_data[j].sigils_metadata[1].extraction_method = "direct"
        /\ entries_data[j].sigils_metadata[1].page_number = 2

\* The same on the dataset of a scan: every metadata of every entry of
\* all_extracted_data names the entry's heading and page.
C34_DatasetSigilsNameTheirEntry ==
  \A j \in 1..Len(all_extracted_data) : SigilsNameTheirEntry(all_extracted_data[j])

(***************************************************************************)
(* C35: the sigil counter and the ids of the recorded sigils               *)
(***************************************************************************)

\* Bound: the largest id looked for in a file name.
MaxSigilId == 9

\* The file name ends with _id<n>.png.
HasId(path, n) ==
  LET suffix == <<"_","i","d">> \o IntToStr(n) \o <<".","p","n","g">>
  IN  /\ Len(path) >= Len(suffix)
      /\ SubSeq(path, Len(path) - Len(suffix) + 1, Len(path)) = suffix

\* The id counter in the file name of a saved image.
SigilId(path) == CHOOSE n \in 0..MaxSigilId : HasId(path, n)

\* C35: the ids of the sigils recorded in the dataset are strictly
\* increasing in dataset order, which is page order and within a page the
\* order of detection, and none exceeds the number of save attempts made
\* since the counter was reset, which is the value of the counter.
C35_DatasetIdsIncreaseByPageAndDetection ==
  /\ \A paths \in {ImagePaths(all_extracted_data, 1)} :
        /\ \A a, b \in 1..Len(paths) : a < b => SigilId(paths[a]) < SigilId(paths[b])
        /\ \A a \in 1..Len(paths) : SigilId(paths[a]) \in 1..sigil_counter
  /\ \A i, j \in 1..Len(all_extracted_data) :
        all_extracted_data[i].page_number < all_extracted_data[j].page_number =>
           \A k \in 1..Len(all_extracted_data[i].sigils_metadata) :
              \A l \in 1..Len(all_extracted_data[j].sigils_metadata) :
                 SigilId(all_extracted_data[i].sigils_metadata[k].image_path)
                   < SigilId(all_extracted_data[j].sigils_metadata[l].image_path)

\* The part of C35 on the counter itself: a scan that starts sets the
\* counter to 0, and any other step leaves it or advances it, by at least
\* the number of image files the step wrote.
C35_CounterResetThenAdvances ==
  [][/\ Len(workers') > Len(workers) => sigil_counter' = 0
     /\ Len(workers') = Len(workers) =>
          sigil_counter' - sigil_counter
            >= Cardinality(DOMAIN image_files' \ DOMAIN image_files)]_vars

\* The same on one page, attempt by attempt: a step of the glyph loop
\* advances the counter by one or leaves it, and a step that writes a file
\* advances it.
C35_AttemptAdvancesByOne ==
  [][GlyphStep =>
       /\ sigil_counter' \in {sigil_counter, sigil_counter + 1}
       /\ image_files' # image_files => sigil_counter' = sigil_counter + 1]_vars

\* A gap: the first attempt of the page returned none (a "*" in a box
\* without width), the second one was saved with id 2, and the id 1 is in
\* no file name.
C35_GapWitness ==
  /\ seg_pc = "done" /\ seg_strategy = "ocr"
  /\ sigil_counter = 2
  /\ Len(entries_data) = 1
  /\ Len(entries_data[1].sigils_metadata) = 1
  /\ SigilId(entries_data[1].sigils_metadata[1].image_path) = 2
  /\ \A f \in DOMAIN image_files : SigilId(f) = 2

\* A scan that ran alone recorded the sigils of two pages with increasing
\* ids.
C35_SequenceWitness ==
  /\ \A w \in 1..Len(workers) : workers[w].pc = "done"
  /\ Len(workers) = 1
  /\ \E i, j \in 1..Len(all_extracted_data) :
        /\ all_extracted_data[i].page_number = 1 /\ all_extracted_data[j].page_number = 2
        /\ Len(all_extracted_data[i].sigils_metadata) >= 1
        /\ Len(all_extracted_data[j].sigils_metadata) >= 1
        /\ SigilId(all_extracted_data[i].sigils_metadata[1].image_path) = 1
        /\ SigilId(all_extracted_data[j].sigils_metadata[1].image_path) = 2

(***************************************************************************)
(* C36: the scan worker ends, and what it has processed when it ends       *)
(***************************************************************************)

\* How many steps the worker whose record is r has ahead of it at most: one
\* for each program point still to come and one for each page of its range
\* not yet reached.
StepsLeft(r) ==
  CASE r.pc = "open"     -> NumPages + 5
    [] r.pc = "validate" -> NumPages + 4
    [] r.pc = "loop"     -> 3 + (r.last_idx + 1 - r.page_idx)
    [] r.pc = "write"    -> 2
    [] r.pc = "finally"  -> 1
    [] r.pc = "done"     -> 0

\* The pages thread w has processed are consecutive page indices in
\* ascending order, each once, the last one the page before page_idx.
ProcessedInOrder(w) ==
  \A i \in 1..Len(workers[w].processed) :
     workers[w].processed[i] = workers[w].page_idx - Len(workers[w].processed) + i - 1

\* C36 as stated: a worker that has ended and whose range was accepted has
\* processed every page index from the start page to min(end page, last
\* page), each once, in ascending order.
C36_EndedWorkerProcessedWholeRange ==
  \A w \in Threads :
     (workers[w].pc = "done" /\ workers[w].last_idx >= 0) =>
        /\ ProcessedInOrder(w)
        /\ workers[w].processed # <<>>
        /\ workers[w].processed[Len(workers[w].processed)] = workers[w].last_idx

\* C36: every worker ends: it is at one of the program points of
\* scan_pdf_worker, none of which waits, and each of its steps lowers
\* StepsLeft, which is never negative.  The worker whose range is accepted
\* starts at the start page and is to end at min(end page, last page) as it
\* reads them when it checks the range; the pages it has processed are at
\* any time consecutive indices from the start page on, in ascending order,
\* each once, none past the end; a worker that ended after writing the
\* dataset file without having logged an error has processed the whole
\* range; and the step that ends a worker sets the progress value to 0.
C36_WorkerEndsAfterPrefixOfRange ==
  /\ [](\A w \in Threads :
          /\ workers[w].pc \in {"open", "validate", "loop", "write", "finally", "done"}
          /\ StepsLeft(workers[w]) >= 0
          /\ ProcessedInOrder(w)
          /\ workers[w].last_idx >= 0 => workers[w].page_idx <= workers[w].last_idx + 1
          /\ workers[w].last_idx < 0 => workers[w].processed = <<>>
          /\ (workers[w].pc = "done" /\ workers[w].outcome = "complete" /\ ~HasError(w)) =>
                workers[w].page_idx = workers[w].last_idx + 1)
  /\ [][\A w \in Threads :
          /\ workers'[w] # workers[w] => StepsLeft(workers'[w]) < StepsLeft(workers[w])
          /\ (workers[w].pc = "validate" /\ workers'[w].pc = "loop") =>
                /\ workers'[w].page_idx = scan_start_page_idx
                /\ workers'[w].last_idx = Min(scan_end_page_idx, NumPages - 1)
                /\ workers'[w].processed = <<>>
          /\ (workers[w].pc # "done" /\ workers'[w].pc = "done") => progress_value' = 0]_vars

\* A worker asked for pages 1 to 3 of the two-page document has ended: it
\* processed the page indices 0 and 1, wrote the dataset file, and the
\* progress value is 0.
C36_Witness ==
  \E w \in Threads :
     /\ workers[w].pc = "done" /\ workers[w].outcome = "complete"
     /\ workers[w].processed = <<0, 1>>
     /\ workers[w].last_idx = 1
     /\ scan_start_page_idx = 0
     /\ progress_value = 0
     /\ Len(workers) = 1

\* A worker has ended before the end of its range: page index 0 could not
\* be rendered, the worker logged the error and processed no page.
C36_StoppedWitness ==
  \E w \in Threads :
     /\ workers[w].pc = "done" /\ workers[w].outcome = "error"
     /\ workers[w].last_idx = 1 /\ workers[w].processed = <<>>
     /\ doc_fault = [idx |-> 0, kind |-> "render"]
     /\ Len(workers) = 1
     /\ progress_value = 0

(***************************************************************************)
(* Scans and searches in one session                                       *)
(***************************************************************************)

\* The symbol the user has drawn on the canvas before the first scan: one
\* stroke, the button released (lines 627-637).
DrawnSymbol == {[from |-> <<0, 5>>, to |-> <<5, 5>>]}

\* The program with the output directory still empty, the canvas blank or
\* holding DrawnSymbol.
ScanQueryInit ==
  /\ all_extracted_data = <<>>
  /\ sigil_counter = 0
  /\ current_pdf_document_fitz = None
  /\ current_pdf_document_plumber = None
  /\ use_ocr_var = FALSE
  /\ scan_start_page_idx = None
  /\ scan_end_page_idx = None
  /\ status_label = "Status: Idle"
  /\ log_text = {}
  /\ progress_value = 0
  /\ root = TRUE
  /\ json_file = None
  /\ image_files = <<>>
  /\ open_handles = {}
  /\ visual_elements = <<>>
  /\ workers = <<>>
  /\ \E env \in Environments :
        /\ tesseract_installed = env.tesseract
        /\ doc_fault = env.fault
  /\ scanned_data_for_query = <<>>
  /\ draw_last_x = <<>>
  /\ draw_last_y = <<>>
  /\ drawn_image_pil \in {{}, DrawnSymbol}
  /\ sigil_search_status_label = LabelText("Draw a symbol and click Search.", 0)
  /\ sigil_search_results = [label |-> "Matching sigils will appear here."]
  /\ query_results_text = [text |-> "Load scanned data to view and query entries."]
  /\ messagebox = <<>>
  /\ last_handler = "none"
  /\ SegIdle

\* Scans one after the other, and between their steps the buttons "Load
\* Scanned Data" and "Search Drawn Sigil".
ScanQueryNext ==
  \/ ChooseOcr
  \/ StartScanInSequence
  \/ \E w \in 1..Len(workers) : W_Open(w)
  \/ \E w \in 1..Len(workers) : W_Validate(w)
  \/ \E w \in 1..Len(workers) : W_Page(w)
  \/ \E w \in 1..Len(workers) : W_Write(w)
  \/ \E w \in 1..Len(workers) : W_Finally(w)
  \/ LoadScannedDataForQuery
  \/ SearchDrawnSigilAction

ScanQuerySpec == ScanQueryInit /\ [][ScanQueryNext]_vars

(***************************************************************************)
(* The corpus of a search after another scan                               *)
(***************************************************************************)

\* The step is a press of "Search Drawn Sigil": no thread moved and no scan
\* was requested.
SearchPressed ==
  /\ last_handler' = "search"
  /\ UNCHANGED <<workers, use_ocr_var, json_file>>
  /\ Presses' = Presses

\* The step is a press of "Load Scanned Data".
LoadPressed ==
  /\ last_handler' = "load"
  /\ UNCHANGED <<workers, use_ocr_var, json_file>>
  /\ Presses' = Presses

\* The dataset file holds a dataset.
FileReadable == json_file # None /\ json_file # Malformed

\* What a read of the dataset file writes to the log.
LoadMessages ==
  {"Loaded entries for querying.", "Error: not found.", "Error: Could not decode JSON"}

\* What a search that got as far as ranking shows for the loaded dataset
\* and the image files now on disk.
RankingShown(top_matches) ==
  IF top_matches = <<>> THEN [label |-> "No matches found."]
  ELSE [matches |-> top_matches]

RankingOfLoaded ==
  RankingShown(TopMatches(SortByDistance(
     Matches(CorpusPairs(scanned_data_for_query, 1), 1, image_files,
             PHashDrawn(drawn_image_pil)))))

\* C37: a search reads the dataset file only when the loaded list is empty:
\* with a non-empty list loaded it keeps the list, reads nothing and ranks
\* the loaded list, whatever the file holds by now; with an empty list it
\* takes over the file's dataset.  No step of a scan changes the loaded
\* list, the rewriting of the file at the end of a scan included: the list
\* changes only on a load or on a search with nothing loaded, and then it
\* becomes the dataset of the file.
C37_SearchKeepsLoadedCorpusAcrossScans ==
  [][ /\ (SearchPressed /\ scanned_data_for_query # <<>>) =>
            /\ scanned_data_for_query' = scanned_data_for_query
            /\ query_results_text' = query_results_text
            /\ \A l \in log_text' \ log_text : l.text \notin LoadMessages
            /\ \A i \in 1..Len(messagebox') :
                  messagebox'[i] \notin {NotFound, NotDecoded}
            /\ RankedNext => sigil_search_results' = RankingOfLoaded
      /\ (SearchPressed /\ scanned_data_for_query = <<>>) =>
            scanned_data_for_query' = IF FileReadable THEN json_file.entries ELSE <<>>
      /\ (LoadPressed /\ FileReadable) => scanned_data_for_query' = json_file.entries
      /\ scanned_data_for_query' # scanned_data_for_query =>
            /\ UNCHANGED <<workers, all_extracted_data, json_file, image_files>>
            /\ FileReadable
            /\ scanned_data_for_query' = json_file.entries
            /\ \/ last_handler' = "load"
               \/ last_handler' = "search" /\ scanned_data_for_query = <<>>
    ]_vars

\* A dataset with sigils was loaded, a later scan has rewritten the file
\* with another dataset, and the search last pressed shows the ranking of
\* the loaded dataset.
C37_Witness ==
  /\ last_handler = "search"
  /\ scanned_data_for_query # <<>>
  /\ FileReadable
  /\ json_file.entries # scanned_data_for_query
  /\ Len(workers) = 2
  /\ \A w \in 1..2 : workers[w].pc = "done" /\ workers[w].outcome = "complete"
  /\ "matches" \in DOMAIN sigil_search_results
  /\ sigil_search_results = RankingOfLoaded

\* A search with nothing loaded has taken over the dataset a scan wrote.
C37_LoadWitness ==
  /\ last_handler = "search"
  /\ FileReadable
  /\ scanned_data_for_query = json_file.entries
  /\ scanned_data_for_query # <<>>
  /\ \E l \in log_text : l.text = "Loaded entries for querying." /\ l.arg > 0
  /\ \E w \in 1..Len(workers) : workers[w].outcome = "complete"

=============================================================================
